---- MODULE Spec2Model ----
(***************************************************************************)
(* State machine of the HUMAN Protocol escrow program for Solana           *)
(* (program/src/processor.rs, program/src/state.rs,                        *)
(* program/src/instruction.rs).                                            *)
(*                                                                         *)
(* One escrow account, one factory account and a handful of SPL token      *)
(* accounts are modelled.  Every instruction handler of Processor is one   *)
(* operator translated from its Rust body, and one action                  *)
(* that applies it to inputs drawn from small sets.  An instruction that   *)
(* returns an error is rolled back by the runtime: the accounts keep       *)
(* their values and only the recorded instruction and result change.       *)
(***************************************************************************)
EXTENDS Integers, Naturals, Sequences, FiniteSets, TLC

VARIABLES
    factory,          \* Factory record: [version]
    escrow,           \* Escrow record (state.rs Escrow)
    balance,          \* SPL token balance of every token account
    now,              \* Clock sysvar: unix_timestamp
    op,               \* the last instruction processed (or environment step taken)
    result,           \* its ProgramResult: "Ok" or the error
    transfers,        \* the spl_token transfers it invoked successfully, in order
    wire              \* the instruction or account data being encoded or decoded

vars == <<factory, escrow, balance, now, op, result, transfers, wire>>

----------------------------------------------------------------------------
(* Bounds of the model *)

\* width of the machine words standing for u64 / i64 (scaled down from 64)
WordBits == 16
\* the clock advances from 0 up to MaxNow
MaxNow == 2
\* at most MaxPayouts successful payouts are explored
MaxPayouts == 2
\* at most MaxMints mint_to operations fund the custody account
MaxMints == 2

U64_MAX == 2^WordBits - 1
I64_MAX == 2^(WordBits - 1) - 1
I64_MIN == 0 - 2^(WordBits - 1)
U8_MAX == 255

----------------------------------------------------------------------------
(* Keys and token accounts *)

\* Pubkey::default()
DefaultKey == "default"

\* wallet keys that can be passed as trusted handler
Wallets == {"launcher", "canceler", "rep_oracle", "rec_oracle", "stranger"}

\* the program derived address of the escrow account and its bump seed
AuthorityKey == "authority"
AuthorityBump == 254

TokenAccounts == {"custody", "canceler_ta", "rep_ta", "rec_ta", "recipient_ta", "alien_ta",
                  "frozen_ta"}

\* token accounts of the escrow's mint that its freeze authority has frozen
FrozenAccounts == {"frozen_ta"}

\* spl_token Account.mint of each token account
MintOf(acc) == IF acc = "alien_ta" THEN "OTHER" ELSE "HMT"

\* spl_token Account.owner of each token account
OwnerOf(acc) ==
    CASE acc = "custody"      -> AuthorityKey
      [] acc = "canceler_ta"  -> "canceler"
      [] acc = "rep_ta"       -> "rep_oracle"
      [] acc = "rec_ta"       -> "rec_oracle"
      [] OTHER                -> "stranger"

----------------------------------------------------------------------------
(* state.rs *)

UNINITIALIZED_FACTORY_VERSION == 0

EscrowState == {"Uninitialized", "Launched", "Pending", "Partial", "Paid",
                "Complete", "Cancelled"}

\* COption::None
None == "none"

\* DataUrl::default() / DataHash::default(): all-zero buffers
ZeroUrl == "url0"
ZeroHash == "hash0"

\* Escrow::default()
DefaultEscrow ==
    [ state                           |-> "Uninitialized",
      factory                         |-> DefaultKey,
      expires                         |-> 0,
      bump_seed                       |-> 0,
      token_mint                      |-> DefaultKey,
      token_account                   |-> DefaultKey,
      reputation_oracle               |-> None,
      reputation_oracle_token_account |-> None,
      reputation_oracle_stake         |-> 0,
      recording_oracle                |-> None,
      recording_oracle_token_account  |-> None,
      recording_oracle_stake          |-> 0,
      launcher                        |-> DefaultKey,
      canceler                        |-> DefaultKey,
      canceler_token_account          |-> DefaultKey,
      total_amount                    |-> 0,
      total_recipients                |-> 0,
      sent_amount                     |-> 0,
      sent_recipients                 |-> 0,
      manifest_url                    |-> ZeroUrl,
      manifest_hash                   |-> ZeroHash,
      final_results_url               |-> ZeroUrl,
      final_results_hash              |-> ZeroHash ]

\* impl IsInitialized for Factory
factory_is_initialized(f) == f.version /= UNINITIALIZED_FACTORY_VERSION

\* impl IsInitialized for Escrow
is_initialized(e) == e.state /= "Uninitialized"

----------------------------------------------------------------------------
(* Machine arithmetic *)

\* u64 + u64: a panic when the build checks overflow, a wrapped sum otherwise
AddOverflows(a, b) == a + b > U64_MAX
wrapping_add(a, b) == (a + b) % (U64_MAX + 1)

\* a variant that wraps instead of checking
wrapping_mul(a, b) == (a * b) % (U64_MAX + 1)

\* u64::checked_mul(..).unwrap_or(0)
checked_mul_or_zero(a, b) == IF a * b > U64_MAX THEN 0 ELSE a * b

\* u64::checked_div(100).unwrap_or(0)
checked_div_or_zero(a, d) == IF d = 0 THEN 0 ELSE a \div d

\* u64::saturating_sub
saturating_sub(a, b) == IF b > a THEN 0 ELSE a - b

\* `duration as i64`: reinterpretation of the word as two's complement
as_i64(d) == IF d > I64_MAX THEN d - (U64_MAX + 1) ELSE d

\* i64 + i64 wrapped into the i64 range
AddOverflowsI64(a, b) == a + b > I64_MAX \/ a + b < I64_MIN
wrapping_add_i64(a, b) ==
    LET s == a + b
    IN  IF s > I64_MAX THEN s - (U64_MAX + 1)
        ELSE IF s < I64_MIN THEN s + (U64_MAX + 1)
        ELSE s

----------------------------------------------------------------------------
(* spl_token program, as invoked by Processor::token_transfer *)

\* result of a handler: the error (or "Ok"), the accounts as the runtime
\* leaves them, and the transfers invoked
Outcome(err, e, bal, trs) ==
    [err |-> err, escrow |-> e, balance |-> bal, transfers |-> trs]

\* spl_token Transfer: refuses a frozen account, an insufficient source
\* balance, accounts of different mints and an authority that does not own
\* the source; a transfer of an account to itself leaves the balance as it is
token_transfer(bal, source, destination, authority, amount) ==
    IF source \in FrozenAccounts \/ destination \in FrozenAccounts
    THEN [ok |-> FALSE, balance |-> bal]
    ELSE IF bal[source] < amount THEN [ok |-> FALSE, balance |-> bal]
    ELSE IF MintOf(source) /= MintOf(destination) THEN [ok |-> FALSE, balance |-> bal]
    ELSE IF OwnerOf(source) /= authority THEN [ok |-> FALSE, balance |-> bal]
    ELSE IF source = destination THEN [ok |-> TRUE, balance |-> bal]
    ELSE [ok |-> TRUE,
          balance |-> [bal EXCEPT ![source] = @ - amount,
                                  ![destination] = @ + amount]]

----------------------------------------------------------------------------
(* processor.rs *)

\* Pubkey::find_program_address for the escrow account
find_authority_bump_seed == [key |-> AuthorityKey, bump_seed |-> AuthorityBump]

\* Pubkey::create_program_address with the stored bump seed; any other seed
\* does not derive the authority
authority_id(bump_seed) ==
    IF bump_seed = AuthorityBump THEN AuthorityKey ELSE "IncorrectProgramId"

\* a variant that accepts every signer
check_trusted_handler_any_signer(e, handler) ==
    IF ~handler.is_signer THEN "MissingRequiredSignature" ELSE "Ok"

\* a variant that takes an unset oracle for a match
check_trusted_handler_unset_oracle_trusted(e, handler) ==
    IF ~handler.is_signer THEN "MissingRequiredSignature"
    ELSE IF handler.key = e.launcher THEN "Ok"
    ELSE IF handler.key = e.canceler THEN "Ok"
    ELSE IF e.reputation_oracle = None \/ handler.key = e.reputation_oracle THEN "Ok"
    ELSE IF e.recording_oracle = None \/ handler.key = e.recording_oracle THEN "Ok"
    ELSE "UnauthorizedSigner"

check_trusted_handler(e, handler) ==
    IF ~handler.is_signer THEN "MissingRequiredSignature"
    ELSE IF handler.key = e.launcher THEN "Ok"
    ELSE IF handler.key = e.canceler THEN "Ok"
    ELSE IF e.reputation_oracle /= None /\ handler.key = e.reputation_oracle THEN "Ok"
    ELSE IF e.recording_oracle /= None /\ handler.key = e.recording_oracle THEN "Ok"
    ELSE "UnauthorizedSigner"

\* a variant that checks the trusted handler before the state
get_escrow_with_handler_check_first(e, clock, handler, allowed_states) ==
    IF ~is_initialized(e) THEN "UninitializedAccount"
    ELSE IF e.expires < clock THEN "EscrowExpired"
    ELSE IF check_trusted_handler(e, handler) /= "Ok" THEN check_trusted_handler(e, handler)
    ELSE IF e.state \notin allowed_states THEN "WrongState"
    ELSE "Ok"

get_escrow_with_state_check(e, clock, handler, allowed_states) ==
    IF ~is_initialized(e) THEN "UninitializedAccount"
    ELSE IF e.expires < clock THEN "EscrowExpired"
    ELSE IF e.state \notin allowed_states THEN "WrongState"
    ELSE check_trusted_handler(e, handler)

process_factory_initialize(f, version) ==
    IF factory_is_initialized(f)
    THEN [err |-> "AccountAlreadyInitialized", factory |-> f]
    ELSE [err |-> "Ok", factory |-> [version |-> version]]

\* a variant that does not look at the canceler's token account
initialize_input_check_custody_only(a) ==
    IF a.duration = 0 THEN "EscrowExpired"
    ELSE IF OwnerOf(a.token_account) /= find_authority_bump_seed.key
         THEN "TokenAccountAuthority"
    ELSE IF MintOf(a.token_account) /= a.token_mint THEN "WrongTokenMint"
    ELSE "Ok"

\* the checks of Initialize on its duration and token accounts
initialize_input_check(a) ==
    IF a.duration = 0 THEN "EscrowExpired"
    ELSE IF OwnerOf(a.token_account) /= find_authority_bump_seed.key
         THEN "TokenAccountAuthority"
    ELSE IF MintOf(a.token_account) /= a.token_mint THEN "WrongTokenMint"
    ELSE IF MintOf(a.canceler_token_account) /= a.token_mint THEN "WrongTokenMint"
    ELSE "Ok"

\* a variant that initializes a record whatever its state
process_initialize_over_record(f, e, clock, bal, oc, a) ==
    LET authority == find_authority_bump_seed
        dur == as_i64(a.duration)
        inp == initialize_input_check(a)
    IN
    IF ~factory_is_initialized(f) THEN Outcome("UninitializedAccount", e, bal, <<>>)
    ELSE IF inp /= "Ok" THEN Outcome(inp, e, bal, <<>>)
    ELSE IF oc /\ AddOverflowsI64(clock, dur) THEN Outcome("Panic", e, bal, <<>>)
    ELSE Outcome("Ok",
            [DefaultEscrow EXCEPT
                !.state = "Launched",
                !.expires = wrapping_add_i64(clock, dur),
                !.bump_seed = authority.bump_seed,
                !.token_mint = a.token_mint,
                !.token_account = a.token_account,
                !.launcher = a.launcher,
                !.canceler = a.canceler,
                !.canceler_token_account = a.canceler_token_account],
            bal, <<>>)

\* f: the Factory account passed; Factory::unpack refuses an uninitialized one
\* oc: whether the build panics on arithmetic overflow (otherwise it wraps)
process_initialize(f, e, clock, bal, oc, a) ==
    LET authority == find_authority_bump_seed
        dur == as_i64(a.duration)
        inp == initialize_input_check(a)
    IN
    IF ~factory_is_initialized(f) THEN Outcome("UninitializedAccount", e, bal, <<>>)
    ELSE IF is_initialized(e) THEN Outcome("AccountAlreadyInitialized", e, bal, <<>>)
    ELSE IF ~factory_is_initialized(f) THEN Outcome("FactoryNotInitialized", e, bal, <<>>)
    ELSE IF inp /= "Ok" THEN Outcome(inp, e, bal, <<>>)
    ELSE IF oc /\ AddOverflowsI64(clock, dur) THEN Outcome("Panic", e, bal, <<>>)
    ELSE Outcome("Ok",
            [DefaultEscrow EXCEPT
                !.state = "Launched",
                !.expires = wrapping_add_i64(clock, dur),
                !.bump_seed = authority.bump_seed,
                !.token_mint = a.token_mint,
                !.token_account = a.token_account,
                !.launcher = a.launcher,
                !.canceler = a.canceler,
                !.canceler_token_account = a.canceler_token_account],
            bal, <<>>)

\* a variant that lets a total stake of 0 pass
stake_check_zero_allowed(reputation_oracle_stake, recording_oracle_stake) ==
    LET sum == reputation_oracle_stake + recording_oracle_stake
    IN  IF sum > U8_MAX THEN "InvalidInstructionData"
        ELSE IF sum > 100 THEN "StakeOutOfBounds"
        ELSE "Ok"

\* u8::checked_add of the stakes, then the bounds of the total
stake_check(reputation_oracle_stake, recording_oracle_stake) ==
    LET sum == reputation_oracle_stake + recording_oracle_stake
    IN  IF sum > U8_MAX THEN "InvalidInstructionData"
        ELSE IF sum = 0 \/ sum > 100 THEN "StakeOutOfBounds"
        ELSE "Ok"

process_setup(e, clock, bal, a) ==
    LET chk == get_escrow_with_state_check(e, clock, a.handler, {"Launched"})
        stk == stake_check(a.reputation_oracle_stake, a.recording_oracle_stake)
    IN
    IF chk /= "Ok" THEN Outcome(chk, e, bal, <<>>)
    ELSE IF stk /= "Ok" THEN Outcome(stk, e, bal, <<>>)
    ELSE IF MintOf(a.reputation_oracle_token_account) /= e.token_mint
         THEN Outcome("WrongTokenMint", e, bal, <<>>)
    ELSE IF MintOf(a.recording_oracle_token_account) /= e.token_mint
         THEN Outcome("WrongTokenMint", e, bal, <<>>)
    ELSE Outcome("Ok",
            [e EXCEPT
                !.reputation_oracle = a.reputation_oracle,
                !.reputation_oracle_token_account = a.reputation_oracle_token_account,
                !.reputation_oracle_stake = a.reputation_oracle_stake,
                !.recording_oracle = a.recording_oracle,
                !.recording_oracle_token_account = a.recording_oracle_token_account,
                !.recording_oracle_stake = a.recording_oracle_stake,
                !.manifest_url = a.manifest_url,
                !.manifest_hash = a.manifest_hash,
                !.state = "Pending"],
            bal, <<>>)

\* a variant that writes the results over the manifest
process_store_results_over_manifest(e, clock, bal, a) ==
    LET chk == get_escrow_with_state_check(e, clock, a.handler, {"Pending", "Partial"})
    IN
    IF chk /= "Ok" THEN Outcome(chk, e, bal, <<>>)
    ELSE Outcome("Ok",
            [e EXCEPT !.manifest_url = a.final_results_url,
                      !.manifest_hash = a.final_results_hash],
            bal, <<>>)

process_store_results(e, clock, bal, a) ==
    LET chk == get_escrow_with_state_check(e, clock, a.handler, {"Pending", "Partial"})
    IN
    IF chk /= "Ok" THEN Outcome(chk, e, bal, <<>>)
    ELSE Outcome("Ok",
            [e EXCEPT !.final_results_url = a.final_results_url,
                      !.final_results_hash = a.final_results_hash],
            bal, <<>>)

\* a variant that starts the sent counters again
process_store_amounts_resetting_sent(e, clock, bal, a) ==
    LET chk == get_escrow_with_state_check(e, clock, a.handler, {"Pending", "Partial"})
    IN
    IF chk /= "Ok" THEN Outcome(chk, e, bal, <<>>)
    ELSE Outcome("Ok",
            [e EXCEPT !.total_amount = a.total_amount,
                      !.total_recipients = a.total_recipients,
                      !.sent_amount = 0,
                      !.sent_recipients = 0],
            bal, <<>>)

process_store_amounts(e, clock, bal, a) ==
    LET chk == get_escrow_with_state_check(e, clock, a.handler, {"Pending", "Partial"})
    IN
    IF chk /= "Ok" THEN Outcome(chk, e, bal, <<>>)
    ELSE Outcome("Ok",
            [e EXCEPT !.total_amount = a.total_amount,
                      !.total_recipients = a.total_recipients],
            bal, <<>>)

\* a variant that sends what is left in custody to the canceler
process_complete_with_sweep(e, clock, bal, a) ==
    LET chk == get_escrow_with_state_check(e, clock, a.handler, {"Paid"})
        t == token_transfer(bal, e.token_account, e.canceler_token_account,
                            authority_id(e.bump_seed), bal[e.token_account])
    IN
    IF chk /= "Ok" THEN Outcome(chk, e, bal, <<>>)
    ELSE IF ~t.ok THEN Outcome("TokenError", e, bal, <<>>)
    ELSE Outcome("Ok", [e EXCEPT !.state = "Complete"], t.balance,
                 <<[source |-> e.token_account,
                    destination |-> e.canceler_token_account,
                    authority |-> authority_id(e.bump_seed),
                    amount |-> bal[e.token_account]]>>)

process_complete(e, clock, bal, a) ==
    LET chk == get_escrow_with_state_check(e, clock, a.handler, {"Paid"})
    IN
    IF chk /= "Ok" THEN Outcome(chk, e, bal, <<>>)
    ELSE Outcome("Ok", [e EXCEPT !.state = "Complete"], bal, <<>>)

\* amount.checked_mul(stake as u64).unwrap_or(0).checked_div(100).unwrap_or(0)
oracle_fee_amount(amount, stake) ==
    checked_div_or_zero(checked_mul_or_zero(amount, stake), 100)

\* a variant that forgets the recording oracle's fee
recipient_amount_less_one_fee(amount, reputation_fee, recording_fee) ==
    saturating_sub(amount, reputation_fee)

\* amount.saturating_sub(reputation fee).saturating_sub(recording fee)
recipient_amount(amount, reputation_fee, recording_fee) ==
    saturating_sub(saturating_sub(amount, reputation_fee), recording_fee)

\* one `if x != 0 { token_transfer(..)? }` step on the balances bal
transfer_if_nonzero(bal, source, destination, authority, amount) ==
    IF amount /= 0
    THEN LET t == token_transfer(bal, source, destination, authority, amount)
         IN  [ok |-> t.ok, balance |-> t.balance,
              issued |-> IF t.ok
                         THEN <<[source |-> source, destination |-> destination,
                                 authority |-> authority, amount |-> amount]>>
                         ELSE <<>>]
    ELSE [ok |-> TRUE, balance |-> bal, issued |-> <<>>]

\* a variant that does not compare the recording oracle's token account
payout_accounts_check_without_recording(e, a) ==
    IF a.token_account /= e.token_account THEN "InvalidInstructionData"
    ELSE IF e.reputation_oracle_token_account = None THEN "OracleNotInitialized"
    ELSE IF a.reputation_oracle_token_account /= e.reputation_oracle_token_account
         THEN "InvalidInstructionData"
    ELSE IF authority_id(e.bump_seed) = "IncorrectProgramId" THEN "IncorrectProgramId"
    ELSE IF a.authority /= authority_id(e.bump_seed) THEN "InvalidInstructionData"
    ELSE "Ok"

\* the account checks of Payout, in the order the `||` chain evaluates them
payout_accounts_check(e, a) ==
    IF a.token_account /= e.token_account THEN "InvalidInstructionData"
    ELSE IF e.reputation_oracle_token_account = None THEN "OracleNotInitialized"
    ELSE IF a.reputation_oracle_token_account /= e.reputation_oracle_token_account
         THEN "InvalidInstructionData"
    ELSE IF e.recording_oracle_token_account = None THEN "OracleNotInitialized"
    ELSE IF a.recording_oracle_token_account /= e.recording_oracle_token_account
         THEN "InvalidInstructionData"
    ELSE IF authority_id(e.bump_seed) = "IncorrectProgramId" THEN "IncorrectProgramId"
    ELSE IF a.authority /= authority_id(e.bump_seed) THEN "InvalidInstructionData"
    ELSE "Ok"

\* a variant that does not count the recipients
too_many_payouts_check_amount_only(e, oc, amount) ==
    IF oc /\ AddOverflows(e.sent_amount, amount) THEN "Panic"
    ELSE IF wrapping_add(e.sent_amount, amount) > e.total_amount THEN "TooManyPayouts"
    ELSE "Ok"

\* `sent_amount + amount > total_amount || sent_recipients + 1 > total_recipients`
too_many_payouts_check(e, oc, amount) ==
    IF oc /\ AddOverflows(e.sent_amount, amount) THEN "Panic"
    ELSE IF wrapping_add(e.sent_amount, amount) > e.total_amount THEN "TooManyPayouts"
    ELSE IF oc /\ AddOverflows(e.sent_recipients, 1) THEN "Panic"
    ELSE IF wrapping_add(e.sent_recipients, 1) > e.total_recipients THEN "TooManyPayouts"
    ELSE "Ok"

\* a variant that looks at the number of recipients only
payout_state_recipients_only(sent_amount, sent_recipients, e) ==
    IF sent_recipients = e.total_recipients THEN "Paid" ELSE "Partial"

\* a variant that looks at the amount only
payout_state_amount_only(sent_amount, sent_recipients, e) ==
    IF sent_amount = e.total_amount THEN "Paid" ELSE "Partial"

\* state after the counters are updated
payout_state(sent_amount, sent_recipients, e) ==
    IF sent_recipients = e.total_recipients /\ sent_amount = e.total_amount
    THEN "Paid" ELSE "Partial"

process_payout(e, clock, bal, oc, a) ==
    LET chk == get_escrow_with_state_check(e, clock, a.handler, {"Pending", "Partial"})
        acc == payout_accounts_check(e, a)
        many == too_many_payouts_check(e, oc, a.amount)
        reputation_oracle_fee_amount == oracle_fee_amount(a.amount, e.reputation_oracle_stake)
        recording_oracle_fee_amount == oracle_fee_amount(a.amount, e.recording_oracle_stake)
        recipient == recipient_amount(a.amount, reputation_oracle_fee_amount,
                                      recording_oracle_fee_amount)
        t1 == transfer_if_nonzero(bal, a.token_account, a.recipient_token_account,
                                  a.authority, recipient)
        t2 == transfer_if_nonzero(t1.balance, a.token_account,
                                  a.reputation_oracle_token_account,
                                  a.authority, reputation_oracle_fee_amount)
        t3 == transfer_if_nonzero(t2.balance, a.token_account,
                                  a.recording_oracle_token_account,
                                  a.authority, recording_oracle_fee_amount)
        sent_amount == wrapping_add(e.sent_amount, a.amount)
        sent_recipients == wrapping_add(e.sent_recipients, 1)
    IN
    IF chk /= "Ok" THEN Outcome(chk, e, bal, <<>>)
    ELSE IF acc /= "Ok" THEN Outcome(acc, e, bal, <<>>)
    ELSE IF bal[a.token_account] < a.amount THEN Outcome("NotEnoughBalance", e, bal, <<>>)
    ELSE IF many /= "Ok" THEN Outcome(many, e, bal, <<>>)
    ELSE IF ~t1.ok THEN Outcome("TokenError", e, bal, <<>>)
    ELSE IF ~t2.ok THEN Outcome("TokenError", e, bal, t1.issued)
    ELSE IF ~t3.ok THEN Outcome("TokenError", e, bal, t1.issued \o t2.issued)
    ELSE Outcome("Ok",
            [e EXCEPT !.sent_amount = sent_amount,
                      !.sent_recipients = sent_recipients,
                      !.state = payout_state(sent_amount, sent_recipients, e)],
            t3.balance, t1.issued \o t2.issued \o t3.issued)

\* the account checks of Cancel
cancel_accounts_check(e, a) ==
    IF a.token_account /= e.token_account THEN "InvalidInstructionData"
    ELSE IF a.canceler_token_account /= e.canceler_token_account
         THEN "InvalidInstructionData"
    ELSE IF authority_id(e.bump_seed) = "IncorrectProgramId" THEN "IncorrectProgramId"
    ELSE IF a.authority /= authority_id(e.bump_seed) THEN "InvalidInstructionData"
    ELSE "Ok"

\* a variant that lets only a Launched escrow be cancelled
cancel_state_check_launched_only(e) ==
    IF ~is_initialized(e) THEN "UninitializedAccount"
    ELSE IF e.state /= "Launched" THEN "WrongState"
    ELSE "Ok"

\* the initialization and state checks of Cancel
cancel_state_check(e) ==
    IF ~is_initialized(e) THEN "UninitializedAccount"
    ELSE IF e.state = "Complete" \/ e.state = "Paid" THEN "WrongState"
    ELSE "Ok"

\* a variant without the balance check
cancel_balance_check_absent(amount) == "Ok"

\* the balance check of Cancel
cancel_balance_check(amount) ==
    IF amount = 0 THEN "NotEnoughBalance" ELSE "Ok"

process_cancel(e, bal, a) ==
    LET st == cancel_state_check(e)
        hnd == check_trusted_handler(e, a.handler)
        acc == cancel_accounts_check(e, a)
        t == token_transfer(bal, a.token_account, a.canceler_token_account,
                            a.authority, bal[a.token_account])
    IN
    IF st /= "Ok" THEN Outcome(st, e, bal, <<>>)
    ELSE IF hnd /= "Ok" THEN Outcome(hnd, e, bal, <<>>)
    ELSE IF acc /= "Ok" THEN Outcome(acc, e, bal, <<>>)
    ELSE IF cancel_balance_check(bal[a.token_account]) /= "Ok"
         THEN Outcome(cancel_balance_check(bal[a.token_account]), e, bal, <<>>)
    ELSE IF ~t.ok THEN Outcome("TokenError", e, bal, <<>>)
    ELSE Outcome("Ok", [e EXCEPT !.state = "Cancelled"], t.balance,
                 <<[source |-> a.token_account,
                    destination |-> a.canceler_token_account,
                    authority |-> a.authority,
                    amount |-> bal[a.token_account]]>>)

----------------------------------------------------------------------------
(* Bytes: keys, URLs, hashes and integers as they are laid out in instruction *)
(* data and in account data.  A key, URL or hash of the model stands for the  *)
(* byte array of the table below; integers are little-endian.                 *)

URL_LEN == 256
HASH_LEN == 20

Fill(b, n) == [i \in 1..n |-> b]
Take(input, n) == SubSeq(input, 1, n)
Drop(input, n) == SubSeq(input, n + 1, Len(input))

KeyTable ==
    <<DefaultKey, "launcher", "canceler", "rep_oracle", "rec_oracle", "stranger",
      AuthorityKey, "custody", "canceler_ta", "rep_ta", "rec_ta", "recipient_ta",
      "alien_ta", "frozen_ta", "HMT", "OTHER", "factory", "blank_factory">>
UrlTable == <<ZeroUrl, "url1", "url2">>
HashTable == <<ZeroHash, "hash1", "hash2">>

\* as_ref(): the bytes of the table's entry x, an array of n equal bytes
AsBytes(table, x, n) == Fill((CHOOSE i \in DOMAIN table : table[i] = x) - 1, n)

\* new_from_array(): the entry of the table that has these bytes
FromBytes(table, bytes) ==
    IF \E i \in DOMAIN table : Fill(i - 1, Len(bytes)) = bytes
    THEN table[CHOOSE i \in DOMAIN table : Fill(i - 1, Len(bytes)) = bytes]
    ELSE "unlisted"

\* u64::to_le_bytes on n bytes
RECURSIVE to_le_bytes(_, _)
to_le_bytes(v, n) ==
    IF n = 0 THEN <<>> ELSE <<v % 256>> \o to_le_bytes(v \div 256, n - 1)

\* u64::from_le_bytes
RECURSIVE from_le_bytes(_)
from_le_bytes(bytes) ==
    IF bytes = <<>> THEN 0 ELSE Head(bytes) + 256 * from_le_bytes(Tail(bytes))

Complement(bytes) == [i \in DOMAIN bytes |-> 255 - bytes[i]]

\* i64::to_le_bytes: two's complement on 8 bytes
i64_to_le_bytes(v) ==
    IF v >= 0 THEN to_le_bytes(v, 8) ELSE Complement(to_le_bytes(0 - v - 1, 8))

\* i64::from_le_bytes
i64_from_le_bytes(bytes) ==
    IF bytes[8] >= 128 THEN 0 - from_le_bytes(Complement(bytes)) - 1
    ELSE from_le_bytes(bytes)

----------------------------------------------------------------------------
(* instruction.rs: EscrowInstruction and its encoding *)

\* what a failed unpack helper returns
Short == [ok |-> FALSE, value |-> 0, rest |-> <<>>]

unpack_u8(input) ==
    IF input /= <<>> THEN [ok |-> TRUE, value |-> Head(input), rest |-> Tail(input)]
    ELSE Short

\* a variant that reads the bytes that are there and takes the others for 0
unpack_u64_zero_padded(input) ==
    IF Len(input) >= 8
    THEN [ok |-> TRUE, value |-> from_le_bytes(Take(input, 8)), rest |-> Drop(input, 8)]
    ELSE [ok |-> TRUE, value |-> from_le_bytes(input), rest |-> <<>>]

unpack_u64(input) ==
    IF Len(input) >= 8
    THEN [ok |-> TRUE, value |-> from_le_bytes(Take(input, 8)), rest |-> Drop(input, 8)]
    ELSE Short

unpack_hash(input) ==
    IF Len(input) >= 20
    THEN [ok |-> TRUE, value |-> FromBytes(HashTable, Take(input, 20)),
          rest |-> Drop(input, 20)]
    ELSE Short

unpack_url(input) ==
    IF Len(input) >= URL_LEN
    THEN [ok |-> TRUE, value |-> FromBytes(UrlTable, Take(input, URL_LEN)),
          rest |-> Drop(input, URL_LEN)]
    ELSE Short

\* no instruction
NoInstruction == [tag |-> "None"]

InvalidInstruction == [err |-> "InvalidInstructionData", instruction |-> NoInstruction]
Unpacked(x) == [err |-> "Ok", instruction |-> x]

\* EscrowInstruction::unpack
EscrowInstruction_unpack(input) ==
    IF input = <<>> THEN InvalidInstruction
    ELSE
    LET tag == Head(input)
        rest == Tail(input)
    IN
    CASE tag = 1 ->
            LET duration == unpack_u64(rest)
            IN  IF ~duration.ok THEN InvalidInstruction
                ELSE Unpacked([tag |-> "Initialize", duration |-> duration.value])
      [] tag = 2 ->
            LET reputation_oracle_stake == unpack_u8(rest)
                recording_oracle_stake == unpack_u8(reputation_oracle_stake.rest)
                manifest_url == unpack_url(recording_oracle_stake.rest)
                manifest_hash == unpack_hash(manifest_url.rest)
            IN  IF ~reputation_oracle_stake.ok THEN InvalidInstruction
                ELSE IF ~recording_oracle_stake.ok THEN InvalidInstruction
                ELSE IF ~manifest_url.ok THEN InvalidInstruction
                ELSE IF ~manifest_hash.ok THEN InvalidInstruction
                ELSE Unpacked([tag |-> "Setup",
                               reputation_oracle_stake |-> reputation_oracle_stake.value,
                               recording_oracle_stake |-> recording_oracle_stake.value,
                               manifest_url |-> manifest_url.value,
                               manifest_hash |-> manifest_hash.value])
      [] tag = 3 ->
            LET total_amount == unpack_u64(rest)
                total_recipients == unpack_u64(total_amount.rest)
                final_results_url == unpack_url(total_recipients.rest)
                final_results_hash == unpack_hash(final_results_url.rest)
            IN  IF ~total_amount.ok THEN InvalidInstruction
                ELSE IF ~total_recipients.ok THEN InvalidInstruction
                ELSE IF ~final_results_url.ok THEN InvalidInstruction
                ELSE IF ~final_results_hash.ok THEN InvalidInstruction
                ELSE Unpacked([tag |-> "StoreResults",
                               total_amount |-> total_amount.value,
                               total_recipients |-> total_recipients.value,
                               final_results_url |-> final_results_url.value,
                               final_results_hash |-> final_results_hash.value])
      [] tag = 4 ->
            LET amount == unpack_u64(rest)
            IN  IF ~amount.ok THEN InvalidInstruction
                ELSE Unpacked([tag |-> "Payout", amount |-> amount.value])
      [] tag = 5 -> Unpacked([tag |-> "Cancel"])
      [] tag = 6 -> Unpacked([tag |-> "Complete"])
      [] OTHER -> InvalidInstruction

\* EscrowInstruction::pack
EscrowInstruction_pack(x) ==
    CASE x.tag = "Initialize" -> <<1>> \o to_le_bytes(x.duration, 8)
      [] x.tag = "Setup" ->
            <<2, x.reputation_oracle_stake, x.recording_oracle_stake>>
            \o AsBytes(UrlTable, x.manifest_url, URL_LEN)
            \o AsBytes(HashTable, x.manifest_hash, HASH_LEN)
      [] x.tag = "StoreResults" ->
            <<3>> \o to_le_bytes(x.total_amount, 8) \o to_le_bytes(x.total_recipients, 8)
            \o AsBytes(UrlTable, x.final_results_url, URL_LEN)
            \o AsBytes(HashTable, x.final_results_hash, HASH_LEN)
      [] x.tag = "Payout" -> <<4>> \o to_le_bytes(x.amount, 8)
      [] x.tag = "Cancel" -> <<5>>
      [] x.tag = "Complete" -> <<6>>

----------------------------------------------------------------------------
(* state.rs: the layout of the Escrow record in its account *)

\* the sizes of mut_array_refs! / array_refs!, in the order of the layout:
\* expires, bump_seed, token_mint, token_account, reputation_oracle,
\* reputation_oracle_token_account, reputation_oracle_stake, recording_oracle,
\* recording_oracle_token_account, recording_oracle_stake, launcher, canceler,
\* canceler_token_account, total_amount, total_recipients, sent_amount,
\* sent_recipients, state, factory, manifest_url, manifest_hash,
\* final_results_url, final_results_hash
Layout ==
    <<8, 1, 32, 32, 36, 36, 1, 36, 36, 1, 32, 32, 32, 8, 8, 8, 8, 1, 32,
      URL_LEN, 20, URL_LEN, 20>>

\* Escrow::LEN
Escrow_LEN == 420 + URL_LEN + URL_LEN

RECURSIVE Offset(_)
Offset(i) == IF i = 1 THEN 0 ELSE Offset(i - 1) + Layout[i - 1]

\* the i-th array of the layout in buffer buf
Slot(buf, i) == SubSeq(buf, Offset(i) + 1, Offset(i) + Layout[i])

\* `state as u8` is the position in the enum, counted from 0
StateTable ==
    <<"Uninitialized", "Launched", "Pending", "Partial", "Paid", "Complete", "Cancelled">>

\* a variant that marks an absent key as present
pack_coption_key_always_some(src, dst) ==
    IF src /= None THEN <<1, 0, 0, 0>> \o AsBytes(KeyTable, src, 32)
    ELSE <<1, 0, 0, 0>> \o Drop(dst, 4)

\* for None only the tag is written: the 32 bytes after it stay as they were
pack_coption_key(src, dst) ==
    IF src /= None THEN <<1, 0, 0, 0>> \o AsBytes(KeyTable, src, 32)
    ELSE <<0, 0, 0, 0>> \o Drop(dst, 4)

\* a variant that takes every tag other than 0 for Some
unpack_coption_key_nonzero_is_some(src) ==
    IF Take(src, 4) = <<0, 0, 0, 0>> THEN [ok |-> TRUE, value |-> None]
    ELSE [ok |-> TRUE, value |-> FromBytes(KeyTable, Drop(src, 4))]

unpack_coption_key(src) ==
    IF Take(src, 4) = <<0, 0, 0, 0>> THEN [ok |-> TRUE, value |-> None]
    ELSE IF Take(src, 4) = <<1, 0, 0, 0>>
         THEN [ok |-> TRUE, value |-> FromBytes(KeyTable, Drop(src, 4))]
    ELSE [ok |-> FALSE, value |-> None]

\* Escrow::pack_into_slice on the buffer output
Escrow_pack_into_slice(e, output) ==
    i64_to_le_bytes(e.expires)
    \o <<e.bump_seed>>
    \o AsBytes(KeyTable, e.token_mint, 32)
    \o AsBytes(KeyTable, e.token_account, 32)
    \o pack_coption_key(e.reputation_oracle, Slot(output, 5))
    \o pack_coption_key(e.reputation_oracle_token_account, Slot(output, 6))
    \o <<e.reputation_oracle_stake>>
    \o pack_coption_key(e.recording_oracle, Slot(output, 8))
    \o pack_coption_key(e.recording_oracle_token_account, Slot(output, 9))
    \o <<e.recording_oracle_stake>>
    \o AsBytes(KeyTable, e.launcher, 32)
    \o AsBytes(KeyTable, e.canceler, 32)
    \o AsBytes(KeyTable, e.canceler_token_account, 32)
    \o to_le_bytes(e.total_amount, 8)
    \o to_le_bytes(e.total_recipients, 8)
    \o to_le_bytes(e.sent_amount, 8)
    \o to_le_bytes(e.sent_recipients, 8)
    \o <<(CHOOSE i \in DOMAIN StateTable : StateTable[i] = e.state) - 1>>
    \o AsBytes(KeyTable, e.factory, 32)
    \o AsBytes(UrlTable, e.manifest_url, URL_LEN)
    \o AsBytes(HashTable, e.manifest_hash, HASH_LEN)
    \o AsBytes(UrlTable, e.final_results_url, URL_LEN)
    \o AsBytes(HashTable, e.final_results_hash, HASH_LEN)

\* the result of unpacking an account: an error, or "Ok" and the record
UnpackFailed(err) == [err |-> err, escrow |-> DefaultEscrow]

\* Escrow::unpack_from_slice
Escrow_unpack_from_slice(input) ==
    LET reputation_oracle == unpack_coption_key(Slot(input, 5))
        reputation_oracle_token_account == unpack_coption_key(Slot(input, 6))
        recording_oracle == unpack_coption_key(Slot(input, 8))
        recording_oracle_token_account == unpack_coption_key(Slot(input, 9))
        state_src == Slot(input, 18)
    IN
    IF ~reputation_oracle.ok THEN UnpackFailed("InvalidAccountData")
    ELSE IF ~reputation_oracle_token_account.ok THEN UnpackFailed("InvalidAccountData")
    ELSE IF ~recording_oracle.ok THEN UnpackFailed("InvalidAccountData")
    ELSE IF ~recording_oracle_token_account.ok THEN UnpackFailed("InvalidAccountData")
    ELSE IF state_src[1] + 1 \notin DOMAIN StateTable THEN UnpackFailed("InvalidAccountData")
    ELSE
    [err |-> "Ok",
     escrow |->
        [ state                           |-> StateTable[state_src[1] + 1],
          factory                         |-> FromBytes(KeyTable, Slot(input, 19)),
          expires                         |-> i64_from_le_bytes(Slot(input, 1)),
          bump_seed                       |-> Slot(input, 2)[1],
          token_mint                      |-> FromBytes(KeyTable, Slot(input, 3)),
          token_account                   |-> FromBytes(KeyTable, Slot(input, 4)),
          reputation_oracle               |-> reputation_oracle.value,
          reputation_oracle_token_account |-> reputation_oracle_token_account.value,
          reputation_oracle_stake         |-> Slot(input, 7)[1],
          recording_oracle                |-> recording_oracle.value,
          recording_oracle_token_account  |-> recording_oracle_token_account.value,
          recording_oracle_stake          |-> Slot(input, 10)[1],
          launcher                        |-> FromBytes(KeyTable, Slot(input, 11)),
          canceler                        |-> FromBytes(KeyTable, Slot(input, 12)),
          canceler_token_account          |-> FromBytes(KeyTable, Slot(input, 13)),
          total_amount                    |-> from_le_bytes(Slot(input, 14)),
          total_recipients                |-> from_le_bytes(Slot(input, 15)),
          sent_amount                     |-> from_le_bytes(Slot(input, 16)),
          sent_recipients                 |-> from_le_bytes(Slot(input, 17)),
          manifest_url                    |-> FromBytes(UrlTable, Slot(input, 20)),
          manifest_hash                   |-> FromBytes(HashTable, Slot(input, 21)),
          final_results_url               |-> FromBytes(UrlTable, Slot(input, 22)),
          final_results_hash              |-> FromBytes(HashTable, Slot(input, 23)) ]]

\* Pack::pack: the buffer after packing e into dst
Escrow_pack(e, dst) ==
    IF Len(dst) /= Escrow_LEN THEN [err |-> "InvalidAccountData", data |-> dst]
    ELSE [err |-> "Ok", data |-> Escrow_pack_into_slice(e, dst)]

\* a variant that reads the record from the front of any buffer long enough
Escrow_unpack_unchecked_prefix(input) ==
    IF Len(input) < Escrow_LEN THEN UnpackFailed("InvalidAccountData")
    ELSE Escrow_unpack_from_slice(input)

\* Pack::unpack_unchecked
Escrow_unpack_unchecked(input) ==
    IF Len(input) /= Escrow_LEN THEN UnpackFailed("InvalidAccountData")
    ELSE Escrow_unpack_from_slice(input)

\* Pack::unpack
Escrow_unpack(input) ==
    LET value == Escrow_unpack_unchecked(input)
    IN  IF value.err /= "Ok" THEN value
        ELSE IF ~is_initialized(value.escrow) THEN UnpackFailed("UninitializedAccount")
        ELSE value

----------------------------------------------------------------------------
(* The accounts of an instruction: as its builder of instruction.rs lists    *)
(* them, and as its handler of processor.rs reads them                       *)

\* AccountMeta::new(key, is_signer) / AccountMeta::new_readonly(key, is_signer),
\* where role says which key the builder was given for this place
Meta(role, is_signer, is_writable) ==
    [role |-> role, is_signer |-> is_signer, is_writable |-> is_writable]

\* the `accounts` vectors of initialize, setup, store_results, payout, cancel
\* and complete
BuilderAccounts ==
    [Initialize |->
        <<Meta("escrow", FALSE, TRUE), Meta("clock", FALSE, FALSE),
          Meta("token_mint", FALSE, FALSE), Meta("token_account", FALSE, FALSE),
          Meta("launcher", FALSE, FALSE), Meta("canceler", FALSE, FALSE),
          Meta("canceler_token_account", FALSE, FALSE)>>,
     Setup |->
        <<Meta("escrow", FALSE, TRUE), Meta("trusted_handler", TRUE, FALSE),
          Meta("clock", FALSE, FALSE), Meta("reputation_oracle", FALSE, FALSE),
          Meta("reputation_oracle_token_account", FALSE, FALSE),
          Meta("recording_oracle", FALSE, FALSE),
          Meta("recording_oracle_token_account", FALSE, FALSE)>>,
     StoreResults |->
        <<Meta("escrow", FALSE, TRUE), Meta("trusted_handler", TRUE, FALSE),
          Meta("clock", FALSE, FALSE)>>,
     Payout |->
        <<Meta("escrow", FALSE, TRUE), Meta("trusted_handler", TRUE, FALSE),
          Meta("clock", FALSE, FALSE), Meta("token_account", FALSE, TRUE),
          Meta("authority", FALSE, FALSE), Meta("recipient_token_account", FALSE, TRUE),
          Meta("reputation_oracle_token_account", FALSE, TRUE),
          Meta("recording_oracle_token_account", FALSE, TRUE),
          Meta("token_program", FALSE, FALSE)>>,
     Cancel |->
        <<Meta("escrow", FALSE, TRUE), Meta("trusted_handler", TRUE, FALSE),
          Meta("token_account", FALSE, TRUE), Meta("authority", FALSE, FALSE),
          Meta("canceler_token_account", FALSE, TRUE),
          Meta("token_program", FALSE, FALSE)>>,
     Complete |->
        <<Meta("escrow", FALSE, TRUE), Meta("trusted_handler", TRUE, FALSE),
          Meta("clock", FALSE, FALSE)>>]

\* the accounts each handler takes with next_account_info, in order
ProcessorAccounts ==
    [FactoryInitialize |-> <<"factory">>,
     Initialize |->
        <<"escrow", "factory", "clock", "token_mint", "token_account", "launcher",
          "canceler", "canceler_token_account">>,
     Setup |->
        <<"escrow", "trusted_handler", "clock", "reputation_oracle",
          "reputation_oracle_token_account", "recording_oracle",
          "recording_oracle_token_account">>,
     StoreResults |-> <<"escrow", "trusted_handler", "clock">>,
     StoreFinalAmounts |-> <<"escrow", "trusted_handler", "clock">>,
     Payout |->
        <<"escrow", "trusted_handler", "clock", "token_account", "authority",
          "recipient_token_account", "reputation_oracle_token_account",
          "recording_oracle_token_account", "token_program">>,
     Cancel |->
        <<"escrow", "trusted_handler", "token_account", "authority",
          "canceler_token_account", "token_program">>,
     Complete |-> <<"escrow", "trusted_handler", "clock">>]

\* the accounts each handler writes: the record it packs, and the token
\* accounts of its transfers
ProcessorWrites ==
    [FactoryInitialize |-> {"factory"},
     Initialize |-> {"escrow"},
     Setup |-> {"escrow"},
     StoreResults |-> {"escrow"},
     StoreFinalAmounts |-> {"escrow"},
     Payout |-> {"escrow", "token_account", "recipient_token_account",
                 "reputation_oracle_token_account", "recording_oracle_token_account"},
     Cancel |-> {"escrow", "token_account", "canceler_token_account"},
     Complete |-> {"escrow"}]

\* the payload fields each arm of Processor::process takes from the
\* instruction it matches
ProcessArms ==
    [FactoryInitialize |-> {"version"},
     Initialize |-> {"duration"},
     Setup |-> {"reputation_oracle_stake", "recording_oracle_stake",
                "manifest_url", "manifest_hash"},
     StoreResults |-> {"final_results_url", "final_results_hash"},
     StoreFinalAmounts |-> {"total_amount", "total_recipients"},
     Payout |-> {"amount"},
     Cancel |-> {},
     Complete |-> {}]

\* the handler of instruction name takes its accounts from the list accounts:
\* next_account_info fails when the list is exhausted, and
\* Clock::from_account_info fails on an account that is not the clock sysvar;
\* taken lists the roles the handler has given to the accounts it took
RECURSIVE next_account_infos(_, _, _)
next_account_infos(name, accounts, taken) ==
    LET i == Len(taken) + 1
        reads == ProcessorAccounts[name]
    IN  IF i > Len(reads) THEN [err |-> "Ok", taken |-> taken]
        ELSE IF i > Len(accounts) THEN [err |-> "NotEnoughAccountKeys", taken |-> taken]
        ELSE IF reads[i] = "clock" /\ accounts[i].role /= "clock"
             THEN [err |-> "InvalidArgument", taken |-> taken]
        ELSE next_account_infos(name, accounts, Append(taken, reads[i]))

\* nothing is being encoded or decoded
NoWire ==
    [kind |-> "none", value |-> NoInstruction, bytes |-> <<>>, accounts |-> <<>>,
     shape |-> "none", decoded |-> NoInstruction]

----------------------------------------------------------------------------
(* Inputs of the instructions *)

\* an amount whose product with every nonzero stake used here leaves the u64 range
BigAmount == U64_MAX \div 5 + 1

Durations == {0, 1, U64_MAX}
StakePairs == {<<0, 0>>, <<5, 10>>, <<60, 50>>, <<200, 100>>}
TotalPairs == {<<0, 0>>, <<20, 1>>, <<40, 2>>, <<BigAmount, 1>>}
PayoutAmounts == {0, 20, BigAmount}
MintAmounts == {BigAmount}
Versions == {0, 1, 2}

\* the trusted handler account passed to an instruction
Handler(k, s) == [key |-> k, is_signer |-> s]
GoodHandler == Handler("launcher", TRUE)
HandlerInputs ==
    {Handler(k, TRUE) : k \in Wallets} \cup {Handler("launcher", FALSE)}

\* the Factory accounts an Initialize can name: the one FactoryInitialize
\* acts on, and one that was never initialized
FactoryAccounts == {"factory", "blank_factory"}

InitializeIx(d, mint, ta, cta) ==
    [factory_account |-> "factory",
     duration |-> d, token_mint |-> mint, token_account |-> ta,
     launcher |-> "launcher", canceler |-> "canceler", canceler_token_account |-> cta]

InitializeInputs ==
    {InitializeIx(d, "HMT", "custody", "canceler_ta") : d \in Durations}
    \cup {InitializeIx(1, "HMT", ta, cta) :
            ta \in {"custody", "canceler_ta"},
            cta \in {"canceler_ta", "alien_ta"}}
    \cup {InitializeIx(1, "OTHER", "custody", "canceler_ta"),
          InitializeIx(0, "HMT", "canceler_ta", "alien_ta"),
          InitializeIx(0, "OTHER", "custody", "canceler_ta"),
          [InitializeIx(1, "HMT", "custody", "canceler_ta")
              EXCEPT !.factory_account = "blank_factory"],
          [InitializeIx(0, "HMT", "custody", "canceler_ta")
              EXCEPT !.factory_account = "blank_factory"]}

\* Initialize with the custody account passed as the canceler's token account too
InitializeAliasedInputs == {InitializeIx(1, "HMT", "custody", "custody")}

SetupIx(h, r, c, rta, cta) ==
    [handler |-> h,
     reputation_oracle_stake |-> r, recording_oracle_stake |-> c,
     manifest_url |-> "url1", manifest_hash |-> "hash1",
     reputation_oracle |-> "rep_oracle", reputation_oracle_token_account |-> rta,
     recording_oracle |-> "rec_oracle", recording_oracle_token_account |-> cta]

SetupInputs ==
    {SetupIx(h, 5, 10, "rep_ta", "rec_ta") : h \in HandlerInputs}
    \cup {SetupIx(GoodHandler, p[1], p[2], "rep_ta", "rec_ta") : p \in StakePairs}
    \cup {SetupIx(GoodHandler, 5, 10, "alien_ta", "rec_ta"),
          SetupIx(GoodHandler, 5, 10, "rep_ta", "alien_ta")}

\* the StoreResults instruction of instruction.rs carries the totals too
StoreResultsInputs ==
    {[handler |-> h, total_amount |-> 40, total_recipients |-> 2,
      final_results_url |-> "url2", final_results_hash |-> "hash2"] :
        h \in HandlerInputs}

StoreAmountsIx(h, p) ==
    [handler |-> h, total_amount |-> p[1], total_recipients |-> p[2]]

StoreAmountsInputs ==
    {StoreAmountsIx(h, <<40, 2>>) : h \in HandlerInputs}
    \cup {StoreAmountsIx(GoodHandler, p) : p \in TotalPairs}

PayoutIx(h, amount, ta, auth, rcp, rta, cta) ==
    [handler |-> h, amount |-> amount,
     token_account |-> ta, authority |-> auth, recipient_token_account |-> rcp,
     reputation_oracle_token_account |-> rta, recording_oracle_token_account |-> cta]

PayoutInputs ==
    {PayoutIx(h, 20, "custody", AuthorityKey, "recipient_ta", "rep_ta", "rec_ta") :
        h \in HandlerInputs}
    \cup {PayoutIx(GoodHandler, amount, "custody", AuthorityKey, rcp, "rep_ta", "rec_ta") :
            amount \in PayoutAmounts, rcp \in {"recipient_ta", "alien_ta"}}
    \cup {PayoutIx(GoodHandler, 20, "canceler_ta", AuthorityKey, "recipient_ta", "rep_ta", "rec_ta"),
          PayoutIx(GoodHandler, 20, "custody", "stranger", "recipient_ta", "rep_ta", "rec_ta"),
          PayoutIx(GoodHandler, 20, "custody", AuthorityKey, "recipient_ta", "rec_ta", "rec_ta"),
          PayoutIx(GoodHandler, 20, "custody", AuthorityKey, "recipient_ta", "rep_ta", "rep_ta")}

CancelIx(h, ta, auth, cta) ==
    [handler |-> h, token_account |-> ta, authority |-> auth,
     canceler_token_account |-> cta]

CancelInputs ==
    {CancelIx(h, "custody", AuthorityKey, cta) :
        h \in HandlerInputs, cta \in {"canceler_ta", "custody"}}
    \cup {CancelIx(GoodHandler, "canceler_ta", AuthorityKey, "canceler_ta"),
          CancelIx(GoodHandler, "custody", "stranger", "canceler_ta")}

CompleteInputs == {[handler |-> h] : h \in HandlerInputs}

\* the builds of the program differ in whether an arithmetic overflow panics
\* or wraps: both outcomes are taken where an overflow occurs
OverflowChecks(overflows) == IF overflows THEN BOOLEAN ELSE {FALSE}

RECURSIVE SumOver(_, _)
SumOver(bal, accs) ==
    IF accs = {} THEN 0
    ELSE LET acc == CHOOSE x \in accs : TRUE
         IN  bal[acc] + SumOver(bal, accs \ {acc})

\* tokens in circulation
Supply(bal) == SumOver(bal, TokenAccounts)

\* the data of the Factory account an Initialize names
FactoryData(a) ==
    IF a.factory_account = "factory" THEN factory
    ELSE [version |-> UNINITIALIZED_FACTORY_VERSION]

\* the outcomes of each handler on the current accounts, for one input
InitializeOutcomes(a) ==
    {process_initialize(FactoryData(a), escrow, now, balance, oc, a) :
        oc \in OverflowChecks(AddOverflowsI64(now, as_i64(a.duration)))}
SetupOutcomes(a) == {process_setup(escrow, now, balance, a)}
StoreResultsOutcomes(a) == {process_store_results(escrow, now, balance, a)}
StoreAmountsOutcomes(a) == {process_store_amounts(escrow, now, balance, a)}
PayoutOutcomes(a) ==
    {process_payout(escrow, now, balance, oc, a) :
        oc \in OverflowChecks(AddOverflows(escrow.sent_amount, a.amount)
                              \/ AddOverflows(escrow.sent_recipients, 1))}
CancelOutcomes(a) == {process_cancel(escrow, balance, a)}
CompleteOutcomes(a) == {process_complete(escrow, now, balance, a)}

----------------------------------------------------------------------------
(* The state machine *)

Init ==
    /\ factory = [version |-> UNINITIALIZED_FACTORY_VERSION]
    /\ escrow = DefaultEscrow
    /\ balance = [acc \in TokenAccounts |-> 0]
    /\ now = 0
    /\ op = "None"
    /\ result = "Ok"
    /\ transfers = <<>>
    /\ wire = NoWire

\* the runtime keeps the outcome r of the handler of instruction name
Apply(name, r) ==
    /\ op' = name
    /\ result' = r.err
    /\ transfers' = r.transfers
    /\ escrow' = r.escrow
    /\ balance' = r.balance
    /\ UNCHANGED <<factory, now, wire>>

FactoryInitialize ==
    \E version \in Versions :
        LET r == process_factory_initialize(factory, version)
        IN  /\ op' = "FactoryInitialize"
            /\ result' = r.err
            /\ factory' = r.factory
            /\ transfers' = <<>>
            /\ UNCHANGED <<escrow, balance, now, wire>>

Initialize ==
    \E a \in InitializeInputs : \E r \in InitializeOutcomes(a) : Apply("Initialize", r)

InitializeAliased ==
    \E a \in InitializeAliasedInputs : \E r \in InitializeOutcomes(a) :
        Apply("Initialize", r)

Setup ==
    \E a \in SetupInputs : \E r \in SetupOutcomes(a) : Apply("Setup", r)

StoreResults ==
    \E a \in StoreResultsInputs : \E r \in StoreResultsOutcomes(a) :
        Apply("StoreResults", r)

StoreFinalAmounts ==
    \E a \in StoreAmountsInputs : \E r \in StoreAmountsOutcomes(a) :
        Apply("StoreFinalAmounts", r)

Payout ==
    \E a \in PayoutInputs : \E r \in PayoutOutcomes(a) :
        /\ r.err = "Ok" => escrow.sent_recipients < MaxPayouts
        /\ Apply("Payout", r)

Cancel ==
    \E a \in CancelInputs : \E r \in CancelOutcomes(a) : Apply("Cancel", r)

Complete ==
    \E a \in CompleteInputs : \E r \in CompleteOutcomes(a) : Apply("Complete", r)

\* the clock sysvar advances; before the escrow account is initialized the
\* clock only fixes the origin of its duration
Tick ==
    /\ is_initialized(escrow)
    /\ now < MaxNow
    /\ now' = now + 1
    /\ op' = "Tick"
    /\ result' = "Ok"
    /\ transfers' = <<>>
    /\ UNCHANGED <<factory, escrow, balance, wire>>

\* the mint authority funds the custody account (spl_token MintTo); the
\* supply of the mint is a u64
MintToEscrow ==
    \E amount \in MintAmounts :
        /\ Supply(balance) + amount <= MaxMints * BigAmount
        /\ Supply(balance) + amount <= U64_MAX
        /\ balance' = [balance EXCEPT !["custody"] = @ + amount]
        /\ op' = "MintTo"
        /\ result' = "Ok"
        /\ transfers' = <<>>
        /\ UNCHANGED <<factory, escrow, now, wire>>

Next ==
    \/ FactoryInitialize
    \/ Initialize
    \/ Setup
    \/ StoreResults
    \/ StoreFinalAmounts
    \/ Payout
    \/ Cancel
    \/ Complete
    \/ Tick
    \/ MintToEscrow

Spec == Init /\ [][Next]_vars

\* the same program, where Initialize may also be given one token account in
\* both roles
NextAliased ==
    \/ Next
    \/ InitializeAliased

SpecAliased == Init /\ [][NextAliased]_vars

\* the same program, where a payout may name the custody account as the
\* recipient's account, so that paid tokens are available to be paid again
RecycledTotals == <<U64_MAX, MaxPayouts + 1>>

StoreAmountsRecycledInputs == {StoreAmountsIx(GoodHandler, RecycledTotals)}

PayoutRecycledInputs ==
    {PayoutIx(GoodHandler, 2 * BigAmount, "custody", AuthorityKey, "custody",
              "rep_ta", "rec_ta")}

StoreFinalAmountsRecycled ==
    \E a \in StoreAmountsRecycledInputs : \E r \in StoreAmountsOutcomes(a) :
        Apply("StoreFinalAmounts", r)

PayoutRecycled ==
    \E a \in PayoutRecycledInputs : \E r \in PayoutOutcomes(a) :
        /\ r.err = "Ok" => escrow.sent_recipients < MaxPayouts + 1
        /\ Apply("Payout", r)

NextRecycled ==
    \/ Next
    \/ StoreFinalAmountsRecycled
    \/ PayoutRecycled

SpecRecycled == Init /\ [][NextRecycled]_vars

\* the same program, where StoreFinalAmounts is never applied
NextNoAmounts ==
    \/ FactoryInitialize
    \/ Initialize
    \/ Setup
    \/ StoreResults
    \/ Payout
    \/ Cancel
    \/ Complete
    \/ Tick
    \/ MintToEscrow

SpecNoAmounts == Init /\ [][NextNoAmounts]_vars

\* the same program, where the reputation oracle's token account registered
\* by Setup is a frozen one
SetupFrozenInputs == {SetupIx(GoodHandler, 5, 10, "frozen_ta", "rec_ta")}

PayoutFrozenInputs ==
    {PayoutIx(GoodHandler, 20, "custody", AuthorityKey, "recipient_ta",
              "frozen_ta", "rec_ta")}

SetupFrozen ==
    \E a \in SetupFrozenInputs : \E r \in SetupOutcomes(a) : Apply("Setup", r)

PayoutFrozen ==
    \E a \in PayoutFrozenInputs : \E r \in PayoutOutcomes(a) :
        /\ r.err = "Ok" => escrow.sent_recipients < MaxPayouts
        /\ Apply("Payout", r)

NextFrozen ==
    \/ Next
    \/ SetupFrozen
    \/ PayoutFrozen

SpecFrozen == Init /\ [][NextFrozen]_vars

----------------------------------------------------------------------------
(* The fee split of Payout on its own: one Payout of every amount on escrows *)
(* set up with every pair of stakes                                          *)

FeeStakes == {0, 1, 5, 10, 33, 50, 67, 99, 100}
FeeStakePairs == {p \in FeeStakes \X FeeStakes : 0 < p[1] + p[2] /\ p[1] + p[2] <= 100}
FeeAmounts == {0, 1, 9, 10, 19, 99, 100, 101, 1000, U64_MAX \div 100,
               U64_MAX \div 100 + 1, U64_MAX \div 2, U64_MAX - 1, U64_MAX}

FeeBalance == [acc \in TokenAccounts |-> IF acc = "custody" THEN U64_MAX ELSE 0]

\* the record after Initialize, Setup with stakes p and StoreFinalAmounts
FundedEscrow(p) ==
    LET f == [version |-> 1]
        e1 == process_initialize(f, DefaultEscrow, 0, FeeBalance, FALSE,
                                 InitializeIx(1, "HMT", "custody", "canceler_ta")).escrow
        e2 == process_setup(e1, 0, FeeBalance,
                            SetupIx(GoodHandler, p[1], p[2], "rep_ta", "rec_ta")).escrow
    IN  process_store_amounts(e2, 0, FeeBalance,
                              StoreAmountsIx(GoodHandler, <<U64_MAX, 1>>)).escrow

FeePayoutInputs ==
    {PayoutIx(GoodHandler, amount, "custody", AuthorityKey, "recipient_ta", "rep_ta", "rec_ta") :
        amount \in FeeAmounts}

FeeInit ==
    /\ factory = [version |-> 1]
    /\ escrow \in {FundedEscrow(p) : p \in FeeStakePairs}
    /\ balance = FeeBalance
    /\ now = 0
    /\ op = "None"
    /\ result = "Ok"
    /\ transfers = <<>>
    /\ wire = NoWire

FeePayout ==
    \E a \in FeePayoutInputs : \E r \in PayoutOutcomes(a) : Apply("Payout", r)

FeeNext == FeePayout

FeeSpec == FeeInit /\ [][FeeNext]_vars

----------------------------------------------------------------------------
(* The documented scenario: Initialize, Setup with stakes 5 and 10,          *)
(* StoreFinalAmounts, one Payout of the whole amount, Complete.  The amounts *)
(* are counted in thousands of tokens, so that amount * stake stays inside   *)
(* the modelled word as 1,000,000 * 10 stays inside a u64                    *)

ScenarioAmount == 1000000 \div 1000
ScenarioTotals == {<<ScenarioAmount, 1000>>, <<ScenarioAmount, 1>>}

ScenarioSetupInputs == {SetupIx(GoodHandler, 5, 10, "rep_ta", "rec_ta")}
ScenarioStoreAmountsInputs == {StoreAmountsIx(GoodHandler, p) : p \in ScenarioTotals}
ScenarioPayoutInputs ==
    {PayoutIx(h, ScenarioAmount, "custody", AuthorityKey, "recipient_ta", "rep_ta", "rec_ta") :
        h \in HandlerInputs}

ScenarioSetup ==
    \E a \in ScenarioSetupInputs : \E r \in SetupOutcomes(a) : Apply("Setup", r)

ScenarioStoreFinalAmounts ==
    \E a \in ScenarioStoreAmountsInputs : \E r \in StoreAmountsOutcomes(a) :
        Apply("StoreFinalAmounts", r)

ScenarioPayout ==
    \E a \in ScenarioPayoutInputs : \E r \in PayoutOutcomes(a) :
        /\ r.err = "Ok" => escrow.sent_recipients < MaxPayouts
        /\ Apply("Payout", r)

ScenarioNext ==
    \/ FactoryInitialize
    \/ Initialize
    \/ MintToEscrow
    \/ ScenarioSetup
    \/ ScenarioStoreFinalAmounts
    \/ ScenarioPayout
    \/ Complete
    \/ Tick

ScenarioSpec == Init /\ [][ScenarioNext]_vars

----------------------------------------------------------------------------
(* The stake check of Setup on its own: Setup with every pair of stakes on a *)
(* freshly initialized escrow                                                *)

StakeValues == {0, 1, 2, 10, 33, 50, 67, 90, 99, 100, 101, 127, 128, 155, 156,
                200, 254, 255}

StakeSetupInputs ==
    {SetupIx(GoodHandler, r, c, "rep_ta", "rec_ta") : r \in StakeValues, c \in StakeValues}

\* the record after Initialize
LaunchedEscrow ==
    process_initialize([version |-> 1], DefaultEscrow, 0,
                       [acc \in TokenAccounts |-> 0], FALSE,
                       InitializeIx(1, "HMT", "custody", "canceler_ta")).escrow

StakeInit ==
    /\ factory = [version |-> 1]
    /\ escrow = LaunchedEscrow
    /\ balance = [acc \in TokenAccounts |-> 0]
    /\ now = 0
    /\ op = "None"
    /\ result = "Ok"
    /\ transfers = <<>>
    /\ wire = NoWire

StakeSetup ==
    \E a \in StakeSetupInputs : \E r \in SetupOutcomes(a) : Apply("Setup", r)

StakeNext == StakeSetup

StakeSpec == StakeInit /\ [][StakeNext]_vars

----------------------------------------------------------------------------
(* The encodings on their own: an instruction or an Escrow record is packed, *)
(* its bytes are damaged or not, and the bytes are unpacked                  *)

InstructionSamples ==
    {[tag |-> "Initialize", duration |-> d] : d \in Durations \cup {2592000}}
    \cup {[tag |-> "Setup",
           reputation_oracle_stake |-> p[1], recording_oracle_stake |-> p[2],
           manifest_url |-> "url1", manifest_hash |-> "hash1"] : p \in StakePairs}
    \cup {[tag |-> "StoreResults", total_amount |-> p[1], total_recipients |-> p[2],
           final_results_url |-> "url2", final_results_hash |-> "hash2"] :
                p \in TotalPairs \cup {<<1000000, 1000>>}}
    \cup {[tag |-> "Payout", amount |-> amount] : amount \in PayoutAmounts}
    \cup {[tag |-> "Cancel"], [tag |-> "Complete"]}

EscrowSamples ==
    {[base EXCEPT !.state = st, !.expires = x] :
        base \in {DefaultEscrow, LaunchedEscrow, FundedEscrow(<<5, 10>>)},
        st \in EscrowState, x \in {0, 1, 0 - 1, 1606402240}}
    \cup {[FundedEscrow(<<5, 10>>) EXCEPT !.recording_oracle = None],
          [FundedEscrow(<<5, 10>>) EXCEPT !.reputation_oracle_token_account = None],
          [FundedEscrow(<<5, 10>>) EXCEPT !.sent_amount = BigAmount, !.sent_recipients = 1,
                                          !.final_results_url = "url2",
                                          !.final_results_hash = "hash2"]}

\* state bytes that name no EscrowState
BadStateBytes == {7, 8, 255}
\* presence tags that are neither [0, 0, 0, 0] nor [1, 0, 0, 0]
BadTags == {<<2, 0, 0, 0>>, <<0, 1, 0, 0>>, <<1, 0, 0, 1>>, <<255, 255, 255, 255>>}
\* instruction tags that name no instruction
BadInstructionTags == {0, 7, 8, 255}
\* what the account held before the record was packed into it
AccountFills == {0, 255}
\* bytes after the payload of an instruction
TrailingBytes == {<<0>>, <<255>>, <<1, 2, 3>>}

\* one step of the codec: wire becomes w, with the call and its result
CodecStep(name, err, w) ==
    /\ wire' = w
    /\ op' = name
    /\ result' = err
    /\ UNCHANGED <<factory, escrow, balance, now, transfers>>

PackInstruction ==
    /\ wire = NoWire
    /\ \E x \in InstructionSamples :
        CodecStep("pack", "Ok",
                  [NoWire EXCEPT !.kind = "instruction", !.value = x,
                                 !.bytes = EscrowInstruction_pack(x),
                                 !.shape = "packed"])

TruncateData ==
    /\ wire.kind = "instruction"
    /\ wire.shape = "packed"
    /\ op = "pack"
    /\ \E n \in 0..(Len(wire.bytes) - 1) :
          CodecStep("truncate", "Ok",
                    [wire EXCEPT !.bytes = Take(wire.bytes, n), !.shape = "short"])

ExtendData ==
    /\ wire.kind = "instruction"
    /\ wire.shape = "packed"
    /\ op = "pack"
    /\ \E extra \in TrailingBytes :
          CodecStep("extend", "Ok",
                    [wire EXCEPT !.bytes = wire.bytes \o extra, !.shape = "long"])

RetagData ==
    /\ wire.kind = "instruction"
    /\ wire.shape = "packed"
    /\ op = "pack"
    /\ \E t \in BadInstructionTags :
          CodecStep("retag", "Ok",
                    [wire EXCEPT !.bytes = <<t>> \o Tail(wire.bytes), !.shape = "retagged"])

UnpackInstruction ==
    /\ wire.kind = "instruction"
    /\ LET u == EscrowInstruction_unpack(wire.bytes)
       IN  CodecStep("unpack", u.err, [wire EXCEPT !.decoded = u.instruction])

PackEscrow ==
    /\ wire = NoWire
    /\ \E e \in EscrowSamples : \E fill \in AccountFills :
        LET packed == Escrow_pack(e, Fill(fill, Escrow_LEN))
        IN  CodecStep("pack", packed.err,
                      [NoWire EXCEPT !.kind = "record", !.value = e,
                                     !.bytes = packed.data, !.shape = "packed"])

ResizeAccount ==
    /\ wire.kind = "record"
    /\ wire.shape = "packed"
    /\ op = "pack"
    /\ \E data \in {<<>>, Take(wire.bytes, Len(wire.bytes) - 1), wire.bytes \o <<0>>} :
          CodecStep("resize", "Ok", [wire EXCEPT !.bytes = data, !.shape = "resized"])

SetStateByte ==
    /\ wire.kind = "record"
    /\ wire.shape = "packed"
    /\ op = "pack"
    /\ \E b \in BadStateBytes :
          CodecStep("set_state", "Ok",
                    [wire EXCEPT !.bytes = [wire.bytes EXCEPT ![Offset(18) + 1] = b],
                                 !.shape = "bad_state"])

SetPresenceTag ==
    /\ wire.kind = "record"
    /\ wire.shape = "packed"
    /\ op = "pack"
    /\ \E slot \in {5, 6, 8, 9} : \E tag \in BadTags :
          CodecStep("set_tag", "Ok",
                    [wire EXCEPT
                        !.bytes = [i \in DOMAIN wire.bytes |->
                                      IF i \in (Offset(slot) + 1)..(Offset(slot) + 4)
                                      THEN tag[i - Offset(slot)] ELSE wire.bytes[i]],
                        !.shape = "bad_tag"])

UnpackEscrow ==
    /\ wire.kind = "record"
    /\ LET u == Escrow_unpack(wire.bytes)
       IN  CodecStep("unpack", u.err, [wire EXCEPT !.decoded = u.escrow])

UnpackUncheckedEscrow ==
    /\ wire.kind = "record"
    /\ LET u == Escrow_unpack_unchecked(wire.bytes)
       IN  CodecStep("unpack_unchecked", u.err, [wire EXCEPT !.decoded = u.escrow])

\* a client builds the accounts of an instruction with its builder
BuildAccounts ==
    /\ wire = NoWire
    /\ \E name \in DOMAIN BuilderAccounts :
          CodecStep("build", "Ok",
                    [NoWire EXCEPT !.kind = "accounts", !.value = [tag |-> name],
                                   !.accounts = BuilderAccounts[name],
                                   !.shape = "built"])

\* the handler of the instruction takes its accounts from the list
ReadAccounts ==
    /\ wire.kind = "accounts"
    /\ LET r == next_account_infos(wire.value.tag, wire.accounts, <<>>)
       IN  CodecStep("read_accounts", r.err,
                     [wire EXCEPT !.decoded = [tag |-> wire.value.tag,
                                               taken |-> r.taken]])

CodecNext ==
    \/ BuildAccounts
    \/ ReadAccounts
    \/ PackInstruction
    \/ TruncateData
    \/ ExtendData
    \/ RetagData
    \/ UnpackInstruction
    \/ PackEscrow
    \/ ResizeAccount
    \/ SetStateByte
    \/ SetPresenceTag
    \/ UnpackEscrow
    \/ UnpackUncheckedEscrow

CodecSpec == Init /\ [][CodecNext]_vars

----------------------------------------------------------------------------
(* Notions used by the properties *)

\* the instructions that act on the escrow account
EscrowOps == {"Initialize", "Setup", "StoreResults", "StoreFinalAmounts",
              "Payout", "Cancel", "Complete"}

\* every (instruction, input, outcome) the program can produce in the current
\* state, for the instructions that take a trusted handler
HandlerRuns ==
    UNION {{<<"Setup", a, r>> : r \in SetupOutcomes(a)} : a \in SetupInputs}
    \cup UNION {{<<"StoreResults", a, r>> : r \in StoreResultsOutcomes(a)} :
                    a \in StoreResultsInputs}
    \cup UNION {{<<"StoreFinalAmounts", a, r>> : r \in StoreAmountsOutcomes(a)} :
                    a \in StoreAmountsInputs}
    \cup UNION {{<<"Payout", a, r>> : r \in PayoutOutcomes(a)} : a \in PayoutInputs}
    \cup UNION {{<<"Complete", a, r>> : r \in CompleteOutcomes(a)} : a \in CompleteInputs}
    \cup UNION {{<<"Cancel", a, r>> : r \in CancelOutcomes(a)} : a \in CancelInputs}

\* the same, with Initialize
EscrowRuns ==
    HandlerRuns
    \cup UNION {{<<"Initialize", a, r>> : r \in InitializeOutcomes(a)} :
                    a \in InitializeInputs \cup InitializeAliasedInputs}

\* the keys the record names as trusted handlers
TrustedKeys ==
    {escrow.launcher, escrow.canceler}
    \cup ({escrow.reputation_oracle, escrow.recording_oracle} \ {None})

\* the transition graph of the documentation
DocumentedGraph ==
    {<<"Uninitialized", "Initialize", "Launched">>,
     <<"Launched", "Setup", "Pending">>,
     <<"Pending", "StoreResults", "Pending">>,
     <<"Partial", "StoreResults", "Partial">>,
     <<"Pending", "StoreFinalAmounts", "Pending">>,
     <<"Partial", "StoreFinalAmounts", "Partial">>,
     <<"Pending", "Payout", "Partial">>,
     <<"Pending", "Payout", "Paid">>,
     <<"Partial", "Payout", "Partial">>,
     <<"Partial", "Payout", "Paid">>,
     <<"Paid", "Complete", "Complete">>,
     <<"Launched", "Cancel", "Cancelled">>,
     <<"Pending", "Cancel", "Cancelled">>,
     <<"Partial", "Cancel", "Cancelled">>}

----------------------------------------------------------------------------
(* Properties *)

\* C1: every successful instruction takes the escrow state along an edge of
\* the documented graph; no other (pre-state, operation, post-state) triple
\* occurs.
C1_TransitionGraph ==
    [][(op' \in EscrowOps /\ result' = "Ok")
        => <<escrow.state, op', escrow'.state>> \in DocumentedGraph]_vars

\* C2: in every reachable state sent_amount <= total_amount and
\* sent_recipients <= total_recipients.
C2_SentWithinTotals ==
    /\ escrow.sent_amount <= escrow.total_amount
    /\ escrow.sent_recipients <= escrow.total_recipients

\* C6: Complete and Cancelled are terminal: once the escrow is in one of them
\* no instruction succeeds on it, and neither the record nor the custody
\* balance is changed by an instruction.
C6_Terminal ==
    [][(escrow.state \in {"Complete", "Cancelled"} /\ op' \in EscrowOps)
        => (result' /= "Ok" /\ escrow' = escrow
            /\ balance'["custody"] = balance["custody"])]_vars

\* the states in which each instruction passes its state check
AcceptedStates(name) ==
    CASE name = "Setup" -> {"Launched"}
      [] name \in {"StoreResults", "StoreFinalAmounts", "Payout"} -> {"Pending", "Partial"}
      [] name = "Complete" -> {"Paid"}
      [] name = "Cancel" -> {"Launched", "Pending", "Partial", "Cancelled"}

\* the checks an instruction makes before it compares the handler's key
PassesChecksBeforeHandlerKey(name, a) ==
    /\ is_initialized(escrow)
    /\ name /= "Cancel" => now <= escrow.expires
    /\ escrow.state \in AcceptedStates(name)
    /\ a.handler.is_signer

\* C3 as stated: on an initialized escrow every instruction whose handler key
\* is none of launcher, canceler, reputation oracle, recording oracle is
\* rejected with UnauthorizedSigner and changes nothing.
C3_UnauthorizedSignerAlways ==
    \A run \in HandlerRuns :
        (is_initialized(escrow) /\ run[2].handler.key \notin TrustedKeys)
            => /\ run[3].err = "UnauthorizedSigner"
               /\ run[3].escrow = escrow
               /\ run[3].balance = balance

\* C3 (amended): an instruction whose handler key is none of launcher,
\* canceler, reputation oracle, recording oracle never succeeds and changes
\* neither the record nor a balance; its error is UnauthorizedSigner when the
\* checks made before the key is compared pass (record initialized, clock not
\* past expires except for Cancel, state accepted, handler has signed).
C3_UnauthorizedRejected ==
    \A run \in HandlerRuns :
        run[2].handler.key \notin TrustedKeys
            => /\ run[3].err /= "Ok"
               /\ run[3].escrow = escrow
               /\ run[3].balance = balance
               /\ run[3].transfers = <<>>
               /\ PassesChecksBeforeHandlerKey(run[1], run[2])
                    => run[3].err = "UnauthorizedSigner"

\* a Payout on a funded escrow was refused for its signer
C3_Witness ==
    /\ op = "Payout"
    /\ result = "UnauthorizedSigner"
    /\ balance["custody"] > 0

\* C4: on an initialized escrow at a clock time now >= expires, every Setup,
\* StoreResults, StoreFinalAmounts, Payout and Complete fails with
\* EscrowExpired and leaves the record unchanged.
C4_ExpiredRejected ==
    (is_initialized(escrow) /\ now >= escrow.expires)
        => \A run \in HandlerRuns :
              run[1] /= "Cancel"
                => (run[3].err = "EscrowExpired" /\ run[3].escrow = escrow)

C7_CancelRefund ==
    [][(op' = "Cancel" /\ result' = "Ok")
        => LET custody == escrow.token_account
               dest == escrow.canceler_token_account
               B == balance[custody]
           IN  /\ transfers' = <<[source |-> custody, destination |-> dest,
                                  authority |-> AuthorityKey, amount |-> B]>>
               /\ balance'[custody] = 0
               /\ balance'[dest] = balance[dest] + B
               /\ escrow' = [escrow EXCEPT !.state = "Cancelled"]]_vars

\* the checks Cancel makes before it reads the custody balance
PassesChecksBeforeBalance(a) ==
    /\ escrow.state \notin {"Paid", "Complete"}
    /\ a.handler.is_signer
    /\ a.handler.key \in TrustedKeys
    /\ a.token_account = escrow.token_account
    /\ a.canceler_token_account = escrow.canceler_token_account
    /\ a.authority = AuthorityKey

\* C8 as stated: every Cancel on an escrow whose custody balance is 0 fails
\* with NotEnoughBalance, issues no transfer and leaves the state unchanged.
C8_NotEnoughBalanceAlways ==
    \A a \in CancelInputs : \A r \in CancelOutcomes(a) :
        (is_initialized(escrow) /\ balance[escrow.token_account] = 0)
            => /\ r.err = "NotEnoughBalance"
               /\ r.transfers = <<>>
               /\ r.escrow.state = escrow.state

\* C8 (amended): a Cancel on an escrow whose custody balance is 0 never
\* succeeds, issues no transfer and leaves the record unchanged; its error is
\* NotEnoughBalance when the checks made before the balance is read pass
\* (state not Paid or Complete, signed trusted handler, recorded accounts).
C8_EmptyCustodyNotCancelled ==
    \A a \in CancelInputs : \A r \in CancelOutcomes(a) :
        (is_initialized(escrow) /\ balance[escrow.token_account] = 0)
            => /\ r.err /= "Ok"
               /\ r.transfers = <<>>
               /\ r.escrow = escrow
               /\ r.balance = balance
               /\ PassesChecksBeforeBalance(a) => r.err = "NotEnoughBalance"

\* a Cancel was refused for the empty custody account
C8_Witness ==
    /\ op = "Cancel"
    /\ result = "NotEnoughBalance"
    /\ escrow.state \in {"Launched", "Pending", "Partial"}
    /\ balance["custody"] = 0

\* C9: for every amount, on an escrow whose stakes r and c satisfy
\* r + c <= 100, the three amounts Payout computes add up to the amount:
\* recipient_amount + reputation fee + recording fee = amount.
C9_FeeSplit ==
    \A amount \in FeeAmounts :
        LET reputation_fee == oracle_fee_amount(amount, escrow.reputation_oracle_stake)
            recording_fee == oracle_fee_amount(amount, escrow.recording_oracle_stake)
        IN  escrow.reputation_oracle_stake + escrow.recording_oracle_stake <= 100
                => recipient_amount(amount, reputation_fee, recording_fee)
                     + reputation_fee + recording_fee = amount

\* a Payout paid all three parties, with a truncated reputation fee
C9_Witness ==
    /\ op = "Payout"
    /\ result = "Ok"
    /\ Len(transfers) = 3
    /\ (escrow.sent_amount * escrow.reputation_oracle_stake) % 100 /= 0
    /\ transfers[1].amount + transfers[2].amount + transfers[3].amount = escrow.sent_amount

\* floor(amount * stake / 100), or 0 when the product leaves the u64 range
ExpectedFee(amount, stake) ==
    IF amount * stake > U64_MAX THEN 0 ELSE (amount * stake) \div 100

\* the transfers of a payout, without those of amount 0
ExpectedTransfers(amount, reputation_stake, recording_stake) ==
    LET f1 == ExpectedFee(amount, reputation_stake)
        f2 == ExpectedFee(amount, recording_stake)
        T(dest, x) == IF x = 0 THEN <<>>
                      ELSE <<[source |-> "custody", destination |-> dest,
                              authority |-> AuthorityKey, amount |-> x]>>
    IN  T("recipient_ta", amount - f1 - f2) \o T("rep_ta", f1) \o T("rec_ta", f2)

\* C10: a Payout(amount) that passes its checks succeeds whatever the amount;
\* each oracle receives floor(amount * stake / 100), or 0 when amount * stake
\* exceeds the u64 range, the recipient receives the rest, and one transfer
\* is issued for each of the three amounts that is not zero.
C10_PayoutTransfers ==
    /\ op = "None" =>
          \A a \in FeePayoutInputs : \A r \in PayoutOutcomes(a) : r.err = "Ok"
    /\ (op = "Payout" /\ result = "Ok") =>
          LET amount == escrow.sent_amount
              f1 == ExpectedFee(amount, escrow.reputation_oracle_stake)
              f2 == ExpectedFee(amount, escrow.recording_oracle_stake)
          IN  /\ transfers = ExpectedTransfers(amount, escrow.reputation_oracle_stake,
                                               escrow.recording_oracle_stake)
              /\ balance["rep_ta"] = f1
              /\ balance["rec_ta"] = f2
              /\ balance["recipient_ta"] = amount - f1 - f2
              /\ balance["custody"] = U64_MAX - amount

\* a Payout succeeded whose reputation fee left the u64 range and was not paid
C10_Witness ==
    /\ op = "Payout"
    /\ result = "Ok"
    /\ escrow.sent_amount * escrow.reputation_oracle_stake > U64_MAX
    /\ escrow.sent_amount * escrow.recording_oracle_stake <= U64_MAX
    /\ escrow.recording_oracle_stake > 0
    /\ balance["rep_ta"] = 0
    /\ balance["rec_ta"] > 0

\* the checks Payout makes before it reads the custody balance
PassesPayoutChecksBeforeBalance(a) ==
    /\ is_initialized(escrow)
    /\ now <= escrow.expires
    /\ escrow.state \in {"Pending", "Partial"}
    /\ a.handler.is_signer
    /\ a.handler.key \in TrustedKeys
    /\ payout_accounts_check(escrow, a) = "Ok"

\* C11: a successful Payout(amount) increases sent_amount by amount and
\* sent_recipients by 1, and sets the state to Paid if afterwards both sent
\* counters equal their totals, and to Partial otherwise.
C11_PayoutCounters ==
    \A a \in PayoutInputs \cup PayoutRecycledInputs : \A r \in PayoutOutcomes(a) :
        (is_initialized(escrow) /\ r.err = "Ok")
            => /\ r.escrow.sent_amount = escrow.sent_amount + a.amount
               /\ r.escrow.sent_recipients = escrow.sent_recipients + 1
               /\ r.escrow.state =
                    IF /\ r.escrow.sent_amount = r.escrow.total_amount
                       /\ r.escrow.sent_recipients = r.escrow.total_recipients
                    THEN "Paid" ELSE "Partial"

\* C12: a Payout(amount) that passes the checks on its handler and accounts
\* fails with NotEnoughBalance when the custody balance is less than amount,
\* and otherwise with TooManyPayouts when sent_amount + amount > total_amount
\* or sent_recipients + 1 > total_recipients as integers; in both cases no
\* transfer is issued and the record is unchanged.
C12_PayoutLimits ==
    \A a \in PayoutInputs \cup PayoutRecycledInputs : \A r \in PayoutOutcomes(a) :
        (is_initialized(escrow) /\ PassesPayoutChecksBeforeBalance(a))
            => /\ balance[a.token_account] < a.amount
                    => (r.err = "NotEnoughBalance" /\ r.escrow = escrow
                        /\ r.balance = balance /\ r.transfers = <<>>)
               /\ (/\ balance[a.token_account] >= a.amount
                   /\ \/ escrow.sent_amount + a.amount > escrow.total_amount
                      \/ escrow.sent_recipients + 1 > escrow.total_recipients)
                    => (r.err = "TooManyPayouts" /\ r.escrow = escrow
                        /\ r.balance = balance /\ r.transfers = <<>>)

SetupFields(e) ==
    <<e.reputation_oracle, e.reputation_oracle_token_account, e.reputation_oracle_stake,
      e.recording_oracle, e.recording_oracle_token_account, e.recording_oracle_stake,
      e.manifest_url, e.manifest_hash>>

OraclesUnset(e) ==
    /\ e.reputation_oracle_stake = 0
    /\ e.recording_oracle_stake = 0
    /\ e.reputation_oracle = None
    /\ e.reputation_oracle_token_account = None
    /\ e.recording_oracle = None
    /\ e.recording_oracle_token_account = None

OraclesSet(e) ==
    /\ 0 < e.reputation_oracle_stake + e.recording_oracle_stake
    /\ e.reputation_oracle_stake + e.recording_oracle_stake <= 100
    /\ e.reputation_oracle /= None
    /\ e.reputation_oracle_token_account /= None
    /\ e.recording_oracle /= None
    /\ e.recording_oracle_token_account /= None

\* C14: every step leads to a state where a Launched escrow has both stakes 0
\* and no oracle field set, and where an escrow that a Setup has succeeded on
\* has 0 < reputation_oracle_stake + recording_oracle_stake <= 100 and both
\* oracle keys and token accounts set; once set, neither these fields nor the
\* manifest URL and hash are changed by any step.
C14_StakesOnceSet ==
    [][/\ escrow'.state = "Launched" => OraclesUnset(escrow')
       /\ (op' = "Setup" /\ result' = "Ok") => OraclesSet(escrow')
       /\ escrow'.state \in {"Pending", "Partial", "Paid", "Complete"}
            => OraclesSet(escrow')
       /\ escrow'.state = "Cancelled" => (OraclesSet(escrow') \/ OraclesUnset(escrow'))
       /\ escrow.state \in {"Pending", "Partial", "Paid", "Complete", "Cancelled"}
            => SetupFields(escrow') = SetupFields(escrow)]_vars

\* an escrow went from Setup through StoreResults and payouts to Complete
C14_Witness ==
    /\ op = "Complete"
    /\ result = "Ok"
    /\ escrow.state = "Complete"
    /\ OraclesSet(escrow)
    /\ escrow.manifest_url = "url1"
    /\ escrow.final_results_url = "url2"

\* C15: on an initialized escrow whose expires is not before the clock, Setup
\* in a state other than Launched, StoreResults, StoreFinalAmounts and Payout
\* in a state other than Pending or Partial, and Complete in a state other
\* than Paid fail with WrongState, whoever the handler is, and leave the
\* record unchanged.
C15_WrongState ==
    \A run \in HandlerRuns :
        (/\ is_initialized(escrow)
         /\ now <= escrow.expires
         /\ run[1] /= "Cancel"
         /\ escrow.state \notin AcceptedStates(run[1]))
            => /\ run[3].err = "WrongState"
               /\ run[3].escrow = escrow
               /\ run[3].balance = balance
               /\ run[3].transfers = <<>>

\* a second Setup was refused on a Pending escrow before it expired
C15_Witness ==
    /\ op = "Setup"
    /\ result = "WrongState"
    /\ escrow.state = "Pending"
    /\ now < escrow.expires

\* C16: a successful Initialize(duration) at clock time now writes a record
\* with state Launched, expires = now + duration (so expires > now), the
\* derived bump seed, the mint, custody account, launcher, canceler and
\* canceler token account passed, no oracle field set, both stakes 0 and all
\* four counters 0.
C16_InitializedRecord ==
    \A a \in InitializeInputs : \A r \in InitializeOutcomes(a) :
        r.err = "Ok"
            => /\ r.escrow.state = "Launched"
               /\ r.escrow.expires = now + a.duration
               /\ r.escrow.expires > now
               /\ r.escrow.bump_seed = find_authority_bump_seed.bump_seed
               /\ r.escrow.token_mint = a.token_mint
               /\ r.escrow.token_account = a.token_account
               /\ r.escrow.launcher = a.launcher
               /\ r.escrow.canceler = a.canceler
               /\ r.escrow.canceler_token_account = a.canceler_token_account
               /\ OraclesUnset(r.escrow)
               /\ r.escrow.total_amount = 0
               /\ r.escrow.total_recipients = 0
               /\ r.escrow.sent_amount = 0
               /\ r.escrow.sent_recipients = 0

\* the faults of an Initialize input
ZeroDuration(a) == a.duration = 0
CustodyOwnerNotAuthority(a) == OwnerOf(a.token_account) /= AuthorityKey
MintDiffers(a) ==
    \/ MintOf(a.token_account) /= a.token_mint
    \/ MintOf(a.canceler_token_account) /= a.token_mint

C18_AlreadyInitialized ==
    \A a \in InitializeInputs : \A r \in InitializeOutcomes(a) :
        is_initialized(escrow)
            => (r.err = "AccountAlreadyInitialized" /\ r.escrow = escrow)

\* C19: on an Uninitialized record, every Initialize that names a Factory
\* whose version is 0 fails with FactoryNotInitialized and leaves the record
\* Uninitialized, and every Initialize that succeeds names a Factory whose
\* version is not 0.
C19_FactoryNotInitialized ==
    \A a \in InitializeInputs : \A r \in InitializeOutcomes(a) :
        ~is_initialized(escrow)
            => /\ FactoryData(a).version = UNINITIALIZED_FACTORY_VERSION
                    => (r.err = "FactoryNotInitialized" /\ r.escrow = escrow)
               /\ r.err = "Ok"
                    => FactoryData(a).version /= UNINITIALIZED_FACTORY_VERSION

\* C20: the step after a successful FactoryInitialize does not change the
\* Factory record, and is not a successful FactoryInitialize; no instruction
\* on an escrow changes the Factory record.
C20_FactoryImmutable ==
    [][/\ (op = "FactoryInitialize" /\ result = "Ok")
            => /\ factory' = factory
               /\ op' = "FactoryInitialize" => result' /= "Ok"
       /\ op' \in EscrowOps => factory' = factory]_vars

\* C21: whenever an instruction returns an error, the escrow record and
\* every token balance are as before the instruction and no transfer has been
\* performed before the failing check or call.
C21_AllOrNothing ==
    /\ \A run \in EscrowRuns :
          run[3].err /= "Ok"
            => /\ run[3].escrow = escrow
               /\ run[3].balance = balance
               /\ run[3].transfers = <<>>
    /\ \A a \in PayoutFrozenInputs : \A r \in PayoutOutcomes(a) :
          r.err /= "Ok"
            => /\ r.escrow = escrow
               /\ r.balance = balance
               /\ r.transfers = <<>>

C23_StoreResultsTotals ==
    \A a \in StoreResultsInputs : \A r \in StoreResultsOutcomes(a) :
        (escrow.state = "Pending" /\ r.err = "Ok")
            => /\ r.escrow.total_amount = a.total_amount
               /\ r.escrow.total_recipients = a.total_recipients
               /\ r.escrow.final_results_url = a.final_results_url
               /\ r.escrow.final_results_hash = a.final_results_hash
               /\ r.escrow.manifest_url = escrow.manifest_url
               /\ r.escrow.manifest_hash = escrow.manifest_hash
               /\ r.escrow.state = "Pending"

C25_RetryRejected ==
    \A a \in PayoutInputs : \A first \in PayoutOutcomes(a) :
        first.err = "Ok" =>
            \A oc \in OverflowChecks(AddOverflows(first.escrow.sent_amount, a.amount)
                                     \/ AddOverflows(first.escrow.sent_recipients, 1)) :
                LET retry == process_payout(first.escrow, now, first.balance, oc, a)
                IN  /\ retry.err \in {"TooManyPayouts", "WrongState"}
                    /\ retry.transfers = <<>>
                    /\ retry.balance = first.balance

\* the escrow is where the scenario has brought it before its Payout a:
\* stakes 5 and 10, the scenario's total amount, nothing paid yet, a funded
\* custody account and a trusted signer
ScenarioReady(a) ==
    /\ PassesPayoutChecksBeforeBalance(a)
    /\ escrow.state = "Pending"
    /\ escrow.reputation_oracle_stake = 5
    /\ escrow.recording_oracle_stake = 10
    /\ escrow.total_amount = ScenarioAmount
    /\ escrow.sent_amount = 0
    /\ escrow.sent_recipients = 0
    /\ balance["custody"] >= ScenarioAmount

\* 85%, 5% and 10% of the scenario's amount, from the custody account
ScenarioTransfers ==
    LET T(dest, x) == [source |-> "custody", destination |-> dest,
                       authority |-> AuthorityKey, amount |-> x]
    IN  <<T("recipient_ta", (ScenarioAmount * 85) \div 100),
          T("rep_ta", (ScenarioAmount * 5) \div 100),
          T("rec_ta", (ScenarioAmount * 10) \div 100)>>

TrustedCompleteInputs ==
    {c \in CompleteInputs : c.handler.is_signer /\ c.handler.key \in TrustedKeys}

\* C26 as stated: after StoreFinalAmounts(1,000,000, 1000) the single Payout
\* of 1,000,000 transfers 850,000, 50,000 and 100,000 and leaves the state
\* Paid, and a Complete after it leaves the state Complete.
C26_ScenarioPaid ==
    \A a \in ScenarioPayoutInputs : \A r \in PayoutOutcomes(a) :
        (ScenarioReady(a) /\ escrow.total_recipients = 1000)
            => /\ r.err = "Ok"
               /\ r.transfers = ScenarioTransfers
               /\ r.escrow.state = "Paid"
               /\ \A c \in TrustedCompleteInputs :
                      process_complete(r.escrow, now, r.balance, c).escrow.state = "Complete"

\* C26, amended: the single Payout transfers 850,000, 50,000 and 100,000; with
\* total_recipients = 1000 it leaves the state Partial and a Complete after
\* it fails with WrongState and changes nothing; with total_recipients = 1 it
\* leaves the state Paid and a Complete after it leaves the state Complete.
C26_ScenarioPartial ==
    \A a \in ScenarioPayoutInputs : \A r \in PayoutOutcomes(a) :
        ScenarioReady(a)
            => /\ r.err = "Ok"
               /\ r.transfers = ScenarioTransfers
               /\ r.escrow.sent_amount = ScenarioAmount
               /\ r.escrow.sent_recipients = 1
               /\ escrow.total_recipients = 1000
                     => /\ r.escrow.state = "Partial"
                        /\ \A c \in TrustedCompleteInputs :
                              LET done == process_complete(r.escrow, now, r.balance, c)
                              IN  /\ done.err = "WrongState"
                                  /\ done.escrow = r.escrow
               /\ escrow.total_recipients = 1
                     => /\ r.escrow.state = "Paid"
                        /\ \A c \in TrustedCompleteInputs :
                              LET done == process_complete(r.escrow, now, r.balance, c)
                              IN  /\ done.err = "Ok"
                                  /\ done.escrow.state = "Complete"

\* the scenario was run with total_recipients = 1000 and its Complete was
\* refused
C26_Witness ==
    /\ op = "Complete"
    /\ result = "WrongState"
    /\ escrow.state = "Partial"
    /\ escrow.total_recipients = 1000
    /\ escrow.sent_amount = ScenarioAmount
    /\ balance["recipient_ta"] = (ScenarioAmount * 85) \div 100
    /\ balance["rep_ta"] = (ScenarioAmount * 5) \div 100
    /\ balance["rec_ta"] = (ScenarioAmount * 10) \div 100

\* an account passed to Payout is not the one of the record
PayoutAccountMismatch(a) ==
    \/ a.token_account /= escrow.token_account
    \/ a.reputation_oracle_token_account /= escrow.reputation_oracle_token_account
    \/ a.recording_oracle_token_account /= escrow.recording_oracle_token_account
    \/ a.authority /= authority_id(escrow.bump_seed)

\* an account passed to Cancel is not the one of the record
CancelAccountMismatch(a) ==
    \/ a.token_account /= escrow.token_account
    \/ a.canceler_token_account /= escrow.canceler_token_account
    \/ a.authority /= authority_id(escrow.bump_seed)

\* C27 as stated: on an initialized escrow every Payout and every Cancel that
\* is passed an account other than the recorded one fails with
\* InvalidInstructionData and issues no transfer.
C27_InvalidDataAlways ==
    /\ \A a \in PayoutInputs : \A r \in PayoutOutcomes(a) :
          (is_initialized(escrow) /\ PayoutAccountMismatch(a))
              => r.err = "InvalidInstructionData" /\ r.transfers = <<>>
    /\ \A a \in CancelInputs : \A r \in CancelOutcomes(a) :
          (is_initialized(escrow) /\ CancelAccountMismatch(a))
              => r.err = "InvalidInstructionData" /\ r.transfers = <<>>

\* C27 (amended): a Payout or Cancel that is passed a custody account, oracle
\* or canceler token account or authority other than the recorded one never
\* succeeds, issues no transfer and changes nothing; its error is
\* InvalidInstructionData when the checks made before the accounts are
\* compared pass (initialized, not expired for Payout, accepted state, signed
\* trusted handler).
C27_AccountMismatch ==
    /\ \A a \in PayoutInputs : \A r \in PayoutOutcomes(a) :
          PayoutAccountMismatch(a)
              => /\ r.err /= "Ok"
                 /\ r.transfers = <<>>
                 /\ r.escrow = escrow
                 /\ r.balance = balance
                 /\ (PassesChecksBeforeHandlerKey("Payout", a) /\ a.handler.key \in TrustedKeys)
                       => r.err = "InvalidInstructionData"
    /\ \A a \in CancelInputs : \A r \in CancelOutcomes(a) :
          CancelAccountMismatch(a)
              => /\ r.err /= "Ok"
                 /\ r.transfers = <<>>
                 /\ r.escrow = escrow
                 /\ r.balance = balance
                 /\ (PassesChecksBeforeHandlerKey("Cancel", a) /\ a.handler.key \in TrustedKeys)
                       => r.err = "InvalidInstructionData"

\* a Payout on a funded escrow with totals was refused for its accounts
C27_Witness ==
    /\ op = "Payout"
    /\ result = "InvalidInstructionData"
    /\ escrow.state = "Pending"
    /\ escrow.total_amount > 0
    /\ balance["custody"] > 0

\* C28: a step that lowers the balance of the custody account is a successful
\* Payout or Cancel; FactoryInitialize, Initialize, Setup, StoreResults,
\* StoreFinalAmounts and Complete issue no transfer and move no tokens; every
\* transfer issued has the recorded custody account as its source and the
\* authority derived from the stored bump_seed as its signer.
C28_CustodyOutflow ==
    [][/\ (/\ is_initialized(escrow)
           /\ balance'[escrow.token_account] < balance[escrow.token_account])
            => /\ op' \in {"Payout", "Cancel"}
               /\ result' = "Ok"
       /\ op' \in {"FactoryInitialize", "Initialize", "Setup", "StoreResults",
                   "StoreFinalAmounts", "Complete"}
            => /\ transfers' = <<>>
               /\ balance' = balance
       /\ \A i \in DOMAIN transfers' :
            /\ transfers'[i].source = escrow.token_account
            /\ transfers'[i].authority = authority_id(escrow.bump_seed)
            /\ transfers'[i].authority = AuthorityKey]_vars

\* a Payout has moved the recipient's part and both fees out of custody
C28_Witness ==
    /\ op = "Payout"
    /\ result = "Ok"
    /\ Len(transfers) = 3
    /\ \A i \in DOMAIN transfers : transfers[i].source = "custody"
    /\ balance["recipient_ta"] > 0
    /\ balance["rep_ta"] > 0
    /\ balance["rec_ta"] > 0

\* C29: no Cancel succeeds while the clock is before the escrow's expires
\* timestamp.
C29_CancelAfterExpiry ==
    \A a \in CancelInputs : \A r \in CancelOutcomes(a) :
        (is_initialized(escrow) /\ now < escrow.expires) => r.err /= "Ok"

\* C30: a Setup whose handler key is neither the launcher nor the canceler
\* never succeeds and changes nothing, the keys it would register as oracles
\* included; on a Launched escrow that has not expired and whose oracles are
\* therefore unset, such a Setup, once signed, fails with UnauthorizedSigner.
C30_SetupByLauncherOrCanceler ==
    \A a \in SetupInputs : \A r \in SetupOutcomes(a) :
        a.handler.key \notin {escrow.launcher, escrow.canceler}
            => /\ r.err /= "Ok"
               /\ r.escrow = escrow
               /\ r.balance = balance
               /\ r.transfers = <<>>
               /\ (/\ is_initialized(escrow)
                   /\ escrow.state = "Launched"
                   /\ now <= escrow.expires
                   /\ a.handler.is_signer)
                     => /\ OraclesUnset(escrow)
                        /\ r.err = "UnauthorizedSigner"

\* a Setup was refused for its signer on a Launched escrow
C30_Witness ==
    /\ op = "Setup"
    /\ result = "UnauthorizedSigner"
    /\ escrow.state = "Launched"
    /\ now <= escrow.expires

\* C34: in state Paid or Complete both sent counters equal their totals and
\* at least one recipient has been paid.
C34_PaidMeansAllSent ==
    escrow.state \in {"Paid", "Complete"}
        => /\ escrow.sent_amount = escrow.total_amount
           /\ escrow.sent_recipients = escrow.total_recipients
           /\ escrow.sent_recipients >= 1

\* the escrow was completed after two payouts
C34_Witness ==
    /\ op = "Complete"
    /\ result = "Ok"
    /\ escrow.state = "Complete"
    /\ escrow.sent_recipients = 2

\* C35: once a Payout has succeeded, the state is not Partial while both sent
\* counters equal their totals.
C35_MatchedMeansPaid ==
    (/\ escrow.sent_recipients >= 1
     /\ escrow.sent_amount = escrow.total_amount
     /\ escrow.sent_recipients = escrow.total_recipients)
        => escrow.state /= "Partial"

\* the fields of the record that Initialize sets
InitializeFields(e) ==
    <<e.launcher, e.canceler, e.canceler_token_account, e.token_mint,
      e.token_account, e.bump_seed, e.expires>>

\* C36: once the escrow is initialized, no step changes launcher, canceler,
\* canceler_token_account, token_mint, token_account, bump_seed or expires.
C36_InitializeFieldsFixed ==
    [][is_initialized(escrow) => InitializeFields(escrow') = InitializeFields(escrow)]_vars

\* a repeated Initialize was refused on an escrow that Setup had acted on
C36_Witness ==
    /\ op = "Initialize"
    /\ result = "AccountAlreadyInitialized"
    /\ escrow.state = "Pending"
    /\ escrow.launcher = "launcher"

\* the tokens moved by a sequence of transfers
RECURSIVE TransferSum(_)
TransferSum(ts) ==
    IF ts = <<>> THEN 0 ELSE Head(ts).amount + TransferSum(Tail(ts))

\* C37: a successful Payout adds the amount it pays (the sum of its
\* transfers) to sent_amount and 1 to sent_recipients, and takes that amount
\* from the custody account when no transfer goes to the custody account
\* itself; no other step changes the sent counters, so that they are the sum
\* and the number of the successful Payouts and never decrease.
C37_SentCounters ==
    [][/\ (op' = "Payout" /\ result' = "Ok")
            => /\ escrow'.sent_amount = escrow.sent_amount + TransferSum(transfers')
               /\ escrow'.sent_recipients = escrow.sent_recipients + 1
               /\ (\A i \in DOMAIN transfers' :
                        transfers'[i].destination /= escrow.token_account)
                     => balance'[escrow.token_account]
                            = balance[escrow.token_account] - TransferSum(transfers')
       /\ ~(op' = "Payout" /\ result' = "Ok")
            => /\ escrow'.sent_amount = escrow.sent_amount
               /\ escrow'.sent_recipients = escrow.sent_recipients
       /\ escrow'.sent_amount >= escrow.sent_amount
       /\ escrow'.sent_recipients >= escrow.sent_recipients]_vars

\* the error of the earliest common check that instruction name with input a
\* fails on the escrow, "Ok" if it fails none
EarliestFailingCheck(name, a) ==
    IF escrow.state = "Uninitialized" THEN "UninitializedAccount"
    ELSE IF escrow.expires < now THEN "EscrowExpired"
    ELSE IF escrow.state \notin AcceptedStates(name) THEN "WrongState"
    ELSE IF ~a.handler.is_signer THEN "MissingRequiredSignature"
    ELSE IF a.handler.key \notin TrustedKeys THEN "UnauthorizedSigner"
    ELSE "Ok"

\* C38: Setup, StoreResults, StoreFinalAmounts, Payout and Complete return
\* the error of the earliest failing check among initialized, not expired,
\* accepted state, handler signed, handler key trusted; no instruction, Cancel
\* included, succeeds for a handler that has not signed.
C38_CheckOrder ==
    \A run \in HandlerRuns :
        /\ (run[1] /= "Cancel" /\ EarliestFailingCheck(run[1], run[2]) /= "Ok")
              => /\ run[3].err = EarliestFailingCheck(run[1], run[2])
                 /\ run[3].escrow = escrow
                 /\ run[3].balance = balance
        /\ ~run[2].handler.is_signer => run[3].err /= "Ok"

\* a second Setup arrived after the escrow expired and was refused for the
\* expiry, not for the state
C38_Witness ==
    /\ op = "Setup"
    /\ result = "EscrowExpired"
    /\ escrow.state = "Pending"
    /\ escrow.expires < now

\* C39: a successful Initialize leaves in the factory field the key of the
\* Factory account it was passed, and the field stays so while the escrow is
\* initialized.
C39_FactoryRecorded ==
    /\ \A a \in InitializeInputs : \A r \in InitializeOutcomes(a) :
          r.err = "Ok" => r.escrow.factory = a.factory_account
    /\ is_initialized(escrow) => escrow.factory \in FactoryAccounts

\* C31 as stated: unpacking the bytes of a packed EscrowInstruction gives the
\* instruction back, and Escrow::unpack on the bytes of a packed Escrow
\* record, whatever its state and its oracle fields, gives the record back.
C31_RoundTrip ==
    (op = "unpack" /\ wire.shape = "packed")
        => /\ result = "Ok"
           /\ wire.decoded = wire.value

\* C31 (amended): unpacking the bytes of a packed EscrowInstruction gives the
\* instruction back; Escrow::unpack_unchecked on the bytes of a packed Escrow
\* record gives the record back whatever its state and its oracle fields;
\* Escrow::unpack does so for every state but Uninitialized, where it fails
\* with UninitializedAccount.
C31_RoundTripInitialized ==
    /\ (op = "unpack" /\ wire.kind = "instruction" /\ wire.shape = "packed")
          => /\ result = "Ok"
             /\ wire.decoded = wire.value
    /\ (op = "unpack_unchecked" /\ wire.shape = "packed")
          => /\ result = "Ok"
             /\ wire.decoded = wire.value
    /\ (op = "unpack" /\ wire.kind = "record" /\ wire.shape = "packed")
          => IF is_initialized(wire.value)
             THEN result = "Ok" /\ wire.decoded = wire.value
             ELSE result = "UninitializedAccount"

\* a record with an absent oracle key, packed over an account full of 255s,
\* was unpacked
C31_Witness ==
    /\ op = "unpack"
    /\ wire.kind = "record"
    /\ wire.shape = "packed"
    /\ wire.value.recording_oracle = None
    /\ wire.value.reputation_oracle /= None
    /\ Slot(wire.bytes, 8) = <<0, 0, 0, 0>> \o Fill(255, 32)
    /\ wire.decoded = wire.value

\* C32: unpacking instruction data fails with InvalidInstructionData when the
\* data is empty or shorter than its variant requires or its tag is none of
\* 1..6, and ignores the bytes after the payload; unpacking account data
\* fails when its length is not Escrow::LEN, when its state byte names no
\* EscrowState, and when a presence tag is neither 0 nor 1.
C32_MalformedRejected ==
    /\ (op = "unpack" /\ wire.kind = "instruction")
          => /\ wire.shape \in {"short", "retagged"}
                  => /\ result = "InvalidInstructionData"
                     /\ wire.decoded = NoInstruction
             /\ wire.shape = "long"
                  => /\ result = "Ok"
                     /\ wire.decoded = wire.value
    /\ (op \in {"unpack", "unpack_unchecked"} /\ wire.kind = "record")
          => (wire.shape \in {"resized", "bad_state", "bad_tag"}
                  => result = "InvalidAccountData")

\* a StoreResults instruction cut inside its payload was refused
C32_Witness ==
    /\ op = "unpack"
    /\ wire.kind = "instruction"
    /\ wire.shape = "short"
    /\ wire.value.tag = "StoreResults"
    /\ Len(wire.bytes) > 16
    /\ result = "InvalidInstructionData"

\* C33: the accounts a builder lists are, in number and in order, the
\* accounts the handler of its instruction takes; the trusted handler is
\* listed as signer and every account the handler writes as writable.
C33_BuilderMatchesProcessor ==
    op = "read_accounts"
        => LET name == wire.value.tag
               reads == ProcessorAccounts[name]
           IN  /\ result = "Ok"
               /\ Len(wire.accounts) = Len(reads)
               /\ \A i \in DOMAIN wire.accounts :
                    /\ i \in DOMAIN reads
                    /\ wire.accounts[i].role = reads[i]
                    /\ reads[i] = "trusted_handler" => wire.accounts[i].is_signer
                    /\ reads[i] \in ProcessorWrites[name] => wire.accounts[i].is_writable

\* C40: every instruction Processor::process dispatches is what
\* EscrowInstruction::unpack returns for some input, and what it returns
\* carries exactly the payload fields the processor takes from it.
C40_DispatchDecodable ==
    /\ \A name \in DOMAIN ProcessArms :
          \E t \in 0..255 :
              EscrowInstruction_unpack(<<t>> \o Fill(0, 2 * URL_LEN)).instruction.tag = name
    /\ (op = "unpack" /\ wire.kind = "instruction" /\ result = "Ok")
          => /\ wire.decoded.tag \in DOMAIN ProcessArms
             /\ DOMAIN wire.decoded \ {"tag"} = ProcessArms[wire.decoded.tag]

====
